---- MODULE Spec2Model ----
(***************************************************************************)
(* The glacial-index climate module (simplified_glacial_index_clim.py) and *)
(* the temperature-index mass-balance module (paleo_smb.py) of the IGM     *)
(* paleo set-up, driven by a host that owns the simulation time.           *)
(*                                                                         *)
(* Numbers: the code computes in float32; the model computes in exact      *)
(* rationals [n, d], with d = 0 for the IEEE non-finite values (n = 0 NaN, *)
(* n = 1 / -1 the infinities).  Time is counted in ticks of 10 years, so   *)
(* that the climate marker's initial value -(10**10) years is -(10^9).     *)
(* Arrays are records [shape, data], data a function of the index tuples.  *)
(***************************************************************************)
EXTENDS Integers, Sequences, FiniteSets, TLC

VARIABLES
    pc,                 \* whose turn it is in the host's step: "time", "clim", "smb", "failed"
    nsteps,             \* number of host steps taken
    t,                  \* state.t
    usurf,              \* state.usurf
    icemask,            \* state.icemask (IcemaskAbsent when state has no such attribute)
    params,             \* the parsed parameters of both modules
    observed_elevation, \* state.observed_elevation
    temp_obs,           \* state.temp_obs
    prec_obs,           \* state.prec_obs
    pr_adj_LGM,         \* state.pr_adj_LGM
    calendar_years,     \* captured by the two lambdas of initialize
    glacial_index,      \* captured by state.glacial_index_at_runtime
    delta_T_data,       \* captured by state.dT_at_runtime
    attrs,              \* names of the attributes the climate initialize has set on state
    modeled_anomaly,    \* the file params.anomaly_atmosphere_file (paleo_clim.py only)
    anomaly_temperature,   \* state.anomaly_temperature (paleo_clim.py only)
    anomaly_precipitation, \* state.anomaly_precipitation (paleo_clim.py only)
    air_temp,           \* state.air_temp
    precipitation,      \* state.precipitation
    meanprec,           \* state.meanprec
    meantemp,           \* state.meantemp
    tlast_clim_oggm,    \* state.tlast_clim_oggm
    tcomp_clim_oggm,    \* state.tcomp_clim_oggm
    smb,                \* state.smb
    tlast_mb,           \* state.tlast_mb
    tcomp_smb_paleo,    \* state.tcomp_smb_paleo
    last_call,          \* what the last update call did: module, outcome, time, pre-call values
    simulation_time,    \* argument of the last direct call of the two runtime lambdas
    index_out,          \* value state.glacial_index_at_runtime returned in that call
    dT_out,             \* value state.dT_at_runtime returned in that call
    accumulation,       \* local of paleo_smb.update: solid precipitation, m of water
    pos_temp_year,      \* local of paleo_smb.update: positive temperatures
    ablation,           \* local of paleo_smb.update: the list, then the stacked tensor
    snow_depth,         \* local of paleo_smb.update
    kk,                 \* local of paleo_smb.update: the loop counter
    months_visited,     \* the month indices k of the pass so far, in order
    times,              \* epica_to_netcdf: minus the ages of the core's samples, in file order
    temperatures,       \* epica_to_netcdf: the temperatures of the core's samples
    d_t_range,          \* epica_to_netcdf: the years asked for
    yearly_delta_T      \* epica_to_netcdf: delta_T, the series written to the file

host_vars == <<pc, nsteps, t, usurf, icemask, params>>
static_vars == <<observed_elevation, temp_obs, prec_obs, pr_adj_LGM,
                 calendar_years, glacial_index, delta_T_data, attrs,
                 modeled_anomaly, anomaly_temperature, anomaly_precipitation>>
clim_vars == <<air_temp, precipitation, meanprec, meantemp,
               tlast_clim_oggm, tcomp_clim_oggm>>
smb_vars == <<smb, tlast_mb, tcomp_smb_paleo>>
query_vars == <<simulation_time, index_out, dT_out>>
pass_vars == <<accumulation, pos_temp_year, ablation, snow_depth, kk, months_visited>>
resample_vars == <<times, temperatures, d_t_range, yearly_delta_T>>
vars == <<host_vars, static_vars, clim_vars, smb_vars, last_call, query_vars, pass_vars, resample_vars>>

----------------------------------------------------------------------------
(* Exact rationals with the IEEE non-finite values.                        *)

Abs(x) == IF x < 0 THEN -x ELSE x

Sign(x) == IF x > 0 THEN 1 ELSE IF x < 0 THEN -1 ELSE 0

Max(a, b) == IF a >= b THEN a ELSE b

RECURSIVE GCD(_, _)
GCD(a, b) == IF b = 0 THEN a ELSE GCD(b, a % b)

Rat(n, d) ==
    IF d = 0 THEN [n |-> Sign(n), d |-> 0]
    ELSE LET g == GCD(Abs(n), Abs(d))
         IN  [n |-> (Sign(d) * n) \div g, d |-> Abs(d) \div g]

R(n) == [n |-> n, d |-> 1]

NaN == [n |-> 0, d |-> 0]

IsNaN(a) == a.d = 0 /\ a.n = 0

IsFinite(a) == a.d # 0

RNeg(a) == [n |-> -a.n, d |-> a.d]

RAdd(a, b) ==
    IF IsNaN(a) \/ IsNaN(b) THEN NaN
    ELSE IF a.d = 0 /\ b.d = 0 THEN (IF a.n = b.n THEN a ELSE NaN)
    ELSE IF a.d = 0 THEN a
    ELSE IF b.d = 0 THEN b
    ELSE LET g == GCD(a.d, b.d)
         IN  Rat(a.n * (b.d \div g) + b.n * (a.d \div g), (a.d \div g) * b.d)

RSub(a, b) == RAdd(a, RNeg(b))

RMul(a, b) ==
    IF IsNaN(a) \/ IsNaN(b) THEN NaN
    ELSE IF a.d = 0 \/ b.d = 0
         THEN [n |-> Sign(a.n) * Sign(b.n), d |-> 0]
    ELSE LET g1 == GCD(Abs(a.n), b.d)
             g2 == GCD(Abs(b.n), a.d)
         IN  Rat((a.n \div g1) * (b.n \div g2), (a.d \div g2) * (b.d \div g1))

RDiv(a, b) == IF IsNaN(b) THEN NaN ELSE RMul(a, Rat(b.d, b.n))

\* a < b as IEEE compares: FALSE as soon as one side is NaN
RLt(a, b) ==
    IF IsNaN(a) \/ IsNaN(b) THEN FALSE
    ELSE IF a.d = 0 \/ b.d = 0
         THEN (IF a.d = 0 THEN a.n ELSE 0) < (IF b.d = 0 THEN b.n ELSE 0)
    ELSE IF a.n \div a.d # b.n \div b.d THEN a.n \div a.d < b.n \div b.d
    ELSE (a.n % a.d) * b.d < (b.n % b.d) * a.d

REq(a, b) == ~IsNaN(a) /\ ~IsNaN(b) /\ a = b

RLe(a, b) == RLt(a, b) \/ REq(a, b)

----------------------------------------------------------------------------
(* Arrays (numpy / TensorFlow) with their shapes.                          *)

RECURSIVE Idx(_)
Idx(shape) ==
    IF shape = <<>> THEN {<<>>}
    ELSE {<<i>> \o r : i \in 1..Head(shape), r \in Idx(Tail(shape))}

Tensor(shape, F(_)) == [shape |-> shape, data |-> [i \in Idx(shape) |-> F(i)]]

Scalar(v) == Tensor(<<>>, LAMBDA i : v)

\* the k-th dimension of shape s once aligned to rank r from the right
Dim(s, k, r) == IF k <= r - Len(s) THEN 1 ELSE s[k - (r - Len(s))]

BroadcastOK(s1, s2) ==
    LET r == Max(Len(s1), Len(s2))
    IN  \A k \in 1..r :
            \/ Dim(s1, k, r) = Dim(s2, k, r)
            \/ Dim(s1, k, r) = 1
            \/ Dim(s2, k, r) = 1

Broadcast(s1, s2) ==
    LET r == Max(Len(s1), Len(s2))
    IN  [k \in 1..r |-> IF Dim(s1, k, r) = 1 THEN Dim(s2, k, r) ELSE Dim(s1, k, r)]

\* the index of the operand of shape s that feeds cell i of the broadcast result
Proj(i, s) == [k \in 1..Len(s) |-> IF s[k] = 1 THEN 1 ELSE i[k + (Len(i) - Len(s))]]

TZip(Op(_, _), A, B) ==
    LET sh == Broadcast(A.shape, B.shape)
    IN  Tensor(sh, LAMBDA i : Op(A.data[Proj(i, A.shape)], B.data[Proj(i, B.shape)]))

TMap(Op(_), A) == Tensor(A.shape, LAMBDA i : Op(A.data[i]))

Zeros(shape) == Tensor(shape, LAMBDA i : R(0))

RECURSIVE Unsqueeze(_, _)
Unsqueeze(i, shape) ==
    IF shape = <<>> THEN <<>>
    ELSE IF Head(shape) = 1 THEN <<1>> \o Unsqueeze(i, Tail(shape))
    ELSE <<Head(i)>> \o Unsqueeze(Tail(i), Tail(shape))

\* np.squeeze: every axis of length 1 is dropped
Squeeze(A) ==
    Tensor(SelectSeq(A.shape, LAMBDA d : d # 1), LAMBDA i : A.data[Unsqueeze(i, A.shape)])

\* tf.expand_dims(A, axis=0)
ExpandDims0(A) == Tensor(<<1>> \o A.shape, LAMBDA i : A.data[Tail(i)])

\* tf.tile is defined only when there is one multiple per axis
TileOK(A, multiples) == Len(multiples) = Len(A.shape)

Tile(A, multiples) ==
    Tensor([k \in 1..Len(A.shape) |-> A.shape[k] * multiples[k]],
           LAMBDA i : A.data[[k \in 1..Len(A.shape) |-> ((i[k] - 1) % A.shape[k]) + 1]])

RECURSIVE SumAxis0(_, _, _)
SumAxis0(A, i, m) ==
    IF m = 0 THEN R(0) ELSE RAdd(SumAxis0(A, i, m - 1), A.data[<<m>> \o i])

\* tf.math.reduce_sum(A, axis=0)
ReduceSum0(A) == Tensor(Tail(A.shape), LAMBDA i : SumAxis0(A, i, A.shape[1]))

\* tf.math.reduce_mean(A, axis=0)
ReduceMean0(A) ==
    Tensor(Tail(A.shape), LAMBDA i : RDiv(SumAxis0(A, i, A.shape[1]), R(A.shape[1])))

\* A[k] for a Python index k (from 0)
Slice0(A, k) == Tensor(Tail(A.shape), LAMBDA i : A.data[<<k + 1>> \o i])

\* an attribute that has not been set on state
Unset == [shape |-> <<0>>, data |-> [i \in {} |-> R(0)]]

----------------------------------------------------------------------------
(* Bounds of the model and the inputs it is run on.                        *)

\* number of times the host advances the simulation time
MaxSteps == 2

\* number_months of initialize, and the 12 of tf.tile in update
number_months == 12

\* -(10**10) years, in ticks of 10 years
tlast_clim_oggm_init == -(10^9)

\* float32 of -1.0e5000
tlast_mb_init == [n |-> -1, d |-> 0]

\* argparse defaults of the two modules (1950 years are 195 ticks; the
\* degree-day factors 0.003 and 0.008 * 365.242198781 are rounded to tenths)
DefaultParams ==
    [ paleo_clim_update_freq          |-> 1,
      year_0                          |-> 195,
      LGM_precip_adjustment           |-> Rat(1, 2),
      polar_amplification_adjustment  |-> Rat(1, 2),
      precipitation_scaling           |-> R(1),
      temperature_scaling             |-> R(1),
      temperature_addition            |-> R(0),
      smb_paleo_update_freq           |-> 1,
      smb_oggm_ice_density            |-> R(910),
      smb_oggm_wat_density            |-> R(1000),
      smb_temp_solid_precipitation    |-> R(0),
      smb_temp_liquid_precipitation   |-> R(2),
      temp_default_gradient           |-> Rat(-13, 2000),
      smb_accpdd_melt_factor_snow     |-> Rat(11, 10),
      smb_accpdd_melt_factor_ice      |-> Rat(29, 10),
      smb_accpdd_shift_hydro_year     |-> Rat(3, 4),
      smb_accpdd_refreeze_factor      |-> Rat(3, 5) ]

\* monthly air temperature of the observation file, in degrees Celsius
MonthTemp == <<-9, -7, -4, -1, 1, 3, 5, 4, 2, -2, -5, -8>>

\* the variables of params.obs_atmosphere_file on the given spatial grids
ObsFile(shapeT, shapeP, shapeE) ==
    [ air_temp      |-> Tensor(<<number_months>> \o shapeT,
                               LAMBDA i : R(MonthTemp[i[1]] - (i[2] - 1))),
      precipitation |-> Tensor(<<number_months>> \o shapeP,
                               LAMBDA i : R(60 * i[3] + 60 * (i[1] % 2))),
      elevation     |-> Tensor(shapeE, LAMBDA i : R(1000 + 200 * (i[1] - 1) + 100 * (i[2] - 1))),
      time          |-> Tensor(<<number_months>>, LAMBDA i : R(i[1])) ]

\* the same file with a no-data cell in the precipitation, read as NaN in every month
ObsFileNoData(shapeT, shapeP, shapeE) ==
    LET obs == ObsFile(shapeT, shapeP, shapeE)
    IN  [obs EXCEPT !.precipitation =
            [shape |-> obs.precipitation.shape,
             data  |-> [i \in DOMAIN obs.precipitation.data |->
                          IF i[2] = 1 /\ i[3] = 2 THEN NaN
                          ELSE obs.precipitation.data[i]]]]

\* the variables of params.delta_temperature_file: time in ticks since 1950,
\* oldest sample first, strictly increasing
ProxyFiles ==
    { [time |-> <<-6, -4, -2, 0>>, delta_T |-> <<-4, -8, -2, 0>>],
      [time |-> <<-6, -3, 0>>,     delta_T |-> <<0, 0, 0>>] }

IndexProxyFiles ==
    ProxyFiles \cup
    { [time |-> <<-7, -4, -1>>,       delta_T |-> <<-6, -2, 2>>],
      [time |-> <<-5, -3, 1, 2>>,     delta_T |-> <<-2, -6, -4, 4>>],
      [time |-> <<-8, -6, -2, 0, 4>>, delta_T |-> <<2, -4, -10, -2, 0>>],
      [time |-> <<-4, -2, 0>>,        delta_T |-> <<-2, 0, -6>>],
      [time |-> <<-3>>,               delta_T |-> <<-2>>] }

\* the host's ice surface: the observed relief plus an ice thickness
Surface(grid, thk) ==
    Tensor(grid, LAMBDA i : R(1000 + 200 * (i[1] - 1) + 100 * (i[2] - 1) + thk * i[1]))

Thicknesses == {0, 200}

Icemask(grid) == Tensor(grid, LAMBDA i : IF i[2] = 1 THEN R(1) ELSE R(0))

\* a file without one of its variables
Without(file, name) == [v \in DOMAIN file \ {name} |-> file[v]]

\* observation files initialize may be given: grids that agree, grids that do
\* not, and files lacking a variable
ObsInputs ==
    { ObsFile(<<2, 2>>, <<2, 2>>, <<2, 2>>), ObsFile(<<2, 2>>, <<3, 2>>, <<2, 2>>),
      ObsFile(<<2, 2>>, <<2, 2>>, <<3, 2>>), ObsFile(<<3, 2>>, <<2, 2>>, <<2, 2>>) }
    \cup { Without(ObsFile(<<2, 2>>, <<2, 2>>, <<2, 2>>), v) :
             v \in {"elevation", "precipitation", "air_temp", "time"} }

\* proxy files initialize may be given: sound ones, one lacking a variable,
\* an empty series, and no file at all
ProxyInputs ==
    ProxyFiles
    \cup { Without(px, v) : px \in ProxyFiles, v \in {"delta_T", "time"} }
    \cup { [time |-> <<>>, delta_T |-> <<>>], [absent |-> TRUE] }

\* the variables of params.anomaly_atmosphere_file on the given spatial grid
AnomalyFile(shape) ==
    [ air_temp      |-> Tensor(<<number_months>> \o shape,
                               LAMBDA i : R(-(2 * i[2] + i[3]))),
      precipitation |-> Tensor(<<number_months>> \o shape,
                               LAMBDA i : R(-(10 * i[2] + 5 * i[3]))) ]

\* the simplified module reads no anomaly file
NoAnomaly == [air_temp |-> Unset, precipitation |-> Unset]

\* grids of the anomaly file: the observed one, larger ones, smaller ones,
\* one with a single row
AnomalyShapes == {<<2, 2>>, <<3, 2>>, <<4, 2>>, <<2, 3>>, <<1, 2>>}

\* grids of the observation file and the simulation in the runs of paleo_clim.py
PaleoGrids == {<<2, 2>>, <<3, 2>>}

\* number of mass-balance passes of one run
MaxPasses == 2

\* the forcing handed to one mass-balance pass, on a grid of one row and two
\* columns: a cold or a mild year, a dry or a wet one
PassForcing(warming, wetness) ==
    [ air_temp      |-> Tensor(<<number_months, 1, 2>>,
                               LAMBDA i : R(MonthTemp[i[1]] + (i[3] - 1) + warming)),
      precipitation |-> Tensor(<<number_months, 1, 2>>,
                               LAMBDA i : R(wetness * (60 * i[3] + 60 * (i[1] % 2)))) ]

PassForcings == { PassForcing(w, p) : w \in {0, 4}, p \in {1, 100} }

\* parameters of the mass-balance passes: the defaults, other starts of the
\* hydrological year, equal thresholds, no refreezing, no snow melt
PassParams ==
    { DefaultParams,
      [DefaultParams EXCEPT !.smb_accpdd_shift_hydro_year = R(0)],
      [DefaultParams EXCEPT !.smb_accpdd_shift_hydro_year = Rat(1, 4)],
      [DefaultParams EXCEPT !.smb_accpdd_shift_hydro_year = Rat(99, 100)],
      [DefaultParams EXCEPT !.smb_accpdd_shift_hydro_year = R(1)],
      [DefaultParams EXCEPT !.smb_temp_solid_precipitation = R(1),
                            !.smb_temp_liquid_precipitation = R(1)],
      [DefaultParams EXCEPT !.smb_accpdd_refreeze_factor = R(0)],
      [DefaultParams EXCEPT !.smb_accpdd_melt_factor_snow = R(0)] }

\* the years asked of the core, np.arange(-130000, -38), in units of 10,000
\* years and to the nearest unit: -13, ..., -4
d_t_range_start == -13
d_t_range_stop == -3

\* cores as the download gives them, youngest sample first: the youngest
\* sample, the spacing and the number of samples vary, so that some cores
\* cover the years asked for and others end inside them on either side
CoreSeries ==
    { [ times        |-> [j \in 1..n |-> newest - spacing * (j - 1)],
        temperatures |-> [j \in 1..n |-> R(((k * j * j) % 7) - 3)] ] :
        newest \in {-3, -5, -8}, spacing \in {2, 3}, n \in 2..5, k \in 1..3 }

\* simulation times the host may start at (ticks): the climate marker's
\* initial value, before the oldest proxy sample, at a sample
StartTimes == {tlast_clim_oggm_init, -202, -199}

\* simulation times the host may set later: at a sample, between two samples,
\* after the newest sample
TimeSet == {-199, -198, -194}

QueryTimes == (-206)..(-190) \cup (-10)..6 \cup {tlast_clim_oggm_init}

----------------------------------------------------------------------------
(* simplified_glacial_index_clim.py                                        *)

RECURSIVE SeqMin(_)
SeqMin(s) ==
    IF Len(s) = 1 THEN s[1]
    ELSE LET m == SeqMin(Tail(s)) IN IF RLt(m, s[1]) THEN m ELSE s[1]

\* the same without np.abs: the index of the smallest time
closest_1950_index_signed(time_data) ==
    CHOOSE j \in 1..Len(time_data) :
        /\ \A k \in 1..Len(time_data) : time_data[j] - 0 <= time_data[k] - 0
        /\ \A k \in 1..(j - 1) : time_data[k] - 0 > time_data[j] - 0

\* np.argmin(np.abs(time_data - 0)): the first index of the smallest value
closest_1950_index(time_data) ==
    CHOOSE j \in 1..Len(time_data) :
        /\ \A k \in 1..Len(time_data) : Abs(time_data[j] - 0) <= Abs(time_data[k] - 0)
        /\ \A k \in 1..(j - 1) : Abs(time_data[k] - 0) > Abs(time_data[j] - 0)

\* the index without its denominator: the excess over the minimum, in degrees
glacial_index_unnormalized(time_data, delta_T) ==
    [j \in 1..Len(delta_T) |-> RSub(delta_T[j], SeqMin(delta_T))]

\* glacial_index = (delta_T_data - minimum_temperature) / (temperature_1950 - minimum_temperature)
normalized_glacial_index(time_data, delta_T) ==
    LET minimum_temperature == SeqMin(delta_T)
        temperature_1950 == delta_T[closest_1950_index(time_data)]
    IN  [j \in 1..Len(delta_T) |->
            RDiv(RSub(delta_T[j], minimum_temperature),
                 RSub(temperature_1950, minimum_temperature))]

\* an interpolator that refuses times outside the samples (interp1d's default)
np_interp_raises_outside(x, xp, fp) ==
    Len(xp) = 0 \/ Len(xp) # Len(fp) \/ x < xp[1] \/ x > xp[Len(xp)]

\* np.interp raises ValueError only for empty or unequal-length sample arrays
np_interp_raises(x, xp, fp) == Len(xp) = 0 \/ Len(xp) # Len(fp)

\* an interpolator that continues the end segments (interp1d with
\* fill_value="extrapolate") instead of holding left and right
np_interp_extrapolate(x, xp, fp, left, right) ==
    LET n == Len(xp)
        j == IF n = 1 THEN 1
             ELSE IF x < xp[1] THEN 1
             ELSE IF x >= xp[n] THEN n - 1
             ELSE CHOOSE k \in 1..(n - 1) : xp[k] <= x /\ x < xp[k + 1]
    IN  IF n = 1 THEN fp[1]
        ELSE RAdd(fp[j], RMul(RDiv(RSub(fp[j + 1], fp[j]), R(xp[j + 1] - xp[j])),
                              R(x - xp[j])))

\* np.interp(x, xp, fp, left, right) for increasing xp
np_interp(x, xp, fp, left, right) ==
    LET n == Len(xp)
    IN  IF x > xp[n] THEN right
        ELSE IF x < xp[1] THEN left
        ELSE LET j == CHOOSE k \in 1..n : xp[k] <= x /\ (k = n \/ x < xp[k + 1])
             IN  IF j = n THEN fp[j]
                 ELSE IF xp[j] = x THEN fp[j]
                 ELSE LET slope == RDiv(RSub(fp[j + 1], fp[j]), R(xp[j + 1] - xp[j]))
                          lo == RAdd(RMul(slope, R(x - xp[j])), fp[j])
                          hi == RAdd(RMul(slope, R(x - xp[j + 1])), fp[j + 1])
                      IN  IF ~IsNaN(lo) THEN lo
                          ELSE IF ~IsNaN(hi) THEN hi
                          ELSE IF fp[j] = fp[j + 1] THEN fp[j]
                          ELSE NaN

\* state.glacial_index_at_runtime
glacial_index_at_runtime(time) ==
    np_interp(time, calendar_years, glacial_index,
              glacial_index[1], glacial_index[Len(glacial_index)])

\* state.dT_at_runtime
dT_at_runtime(time) ==
    np_interp(time, calendar_years, delta_T_data,
              delta_T_data[1], delta_T_data[Len(delta_T_data)])

\* the two weights of the blend exchanged: observed * (G * adjustment + (1 - G))
glacial_index_precipitation_swapped(observed, G, adjustment) ==
    RMul(observed, RAdd(RMul(G, adjustment), RSub(R(1), G)))

\* observed * (G + adjustment * (1 - G))
glacial_index_precipitation(observed, G, adjustment) ==
    RMul(observed, RAdd(G, RMul(adjustment, RSub(R(1), G))))

\* what initialize leaves on state, from the two input files and the host grid
initialize(p, obs, proxy, grid) ==
    LET delta_T == [j \in 1..Len(proxy.delta_T) |->
                        RMul(R(proxy.delta_T[j]), p.polar_amplification_adjustment)]
    IN  [ observed_elevation |-> Squeeze(obs.elevation),
          temp_obs |-> TMap(LAMBDA v : RMul(RAdd(v, p.temperature_addition),
                                            p.temperature_scaling),
                            Squeeze(obs.air_temp)),
          prec_obs |-> TMap(LAMBDA v : RMul(v, p.precipitation_scaling),
                            Squeeze(obs.precipitation)),
          pr_adj_LGM |-> p.LGM_precip_adjustment,
          delta_T_data |-> delta_T,
          glacial_index |-> normalized_glacial_index(proxy.time, delta_T),
          calendar_years |-> [j \in 1..Len(proxy.time) |-> proxy.time[j] - p.year_0],
          air_temp |-> Zeros(<<number_months, grid[1], grid[2]>>),
          precipitation |-> Zeros(<<number_months, grid[1], grid[2]>>),
          tlast_clim_oggm |-> tlast_clim_oggm_init,
          tcomp_clim_oggm |-> <<>> ]

\* the attributes initialize sets, in the order of its assignments
ClimAttrsInOrder ==
    << "observed_elevation", "temp_obs", "prec_obs", "pr_adj_LGM",
       "glacial_index_at_runtime", "dT_at_runtime", "air_temp", "precipitation",
       "tlast_clim_oggm", "tcomp_clim_oggm" >>

ClimAttrs == {ClimAttrsInOrder[j] : j \in DOMAIN ClimAttrsInOrder}

\* the statement of initialize that raises for the given files, "none" if none does:
\* a variable missing from the observation file (lines 83-86), the proxy file
\* missing (105), one of its variables missing (108, 113), an empty series (120)
initialize_raises_at(obs, proxy) ==
    IF {"elevation", "precipitation", "air_temp", "time"} \ DOMAIN obs # {}
    THEN "observation_variable"
    ELSE IF "absent" \in DOMAIN proxy THEN "proxy_file"
    ELSE IF "delta_T" \notin DOMAIN proxy THEN "proxy_delta_T"
    ELSE IF "time" \notin DOMAIN proxy THEN "proxy_time"
    ELSE IF Len(proxy.delta_T) = 0 \/ Len(proxy.time) = 0 THEN "empty_series"
    ELSE "none"

\* how many attributes initialize has assigned when that statement raises
attrs_assigned_before(stage) ==
    CASE stage = "observation_variable" -> 0
      [] stage \in {"proxy_file", "proxy_delta_T", "proxy_time"} -> 3
      [] stage = "empty_series" -> 4
      [] stage = "none" -> Len(ClimAttrsInOrder)

\* initialize as a call of the host on a state without the module's attributes
clim_initialize ==
    /\ pc = "init"
    /\ \E obs \in ObsInputs, proxy \in ProxyInputs :
          LET stage == initialize_raises_at(obs, proxy)
              n == attrs_assigned_before(stage)
          IN  /\ attrs' = {ClimAttrsInOrder[j] : j \in 1..n}
              /\ observed_elevation' =
                    IF n >= 1 THEN Squeeze(obs.elevation) ELSE observed_elevation
              /\ temp_obs' =
                    IF n >= 2
                    THEN TMap(LAMBDA v : RMul(RAdd(v, params.temperature_addition),
                                              params.temperature_scaling),
                              Squeeze(obs.air_temp))
                    ELSE temp_obs
              /\ prec_obs' =
                    IF n >= 3
                    THEN TMap(LAMBDA v : RMul(v, params.precipitation_scaling),
                              Squeeze(obs.precipitation))
                    ELSE prec_obs
              /\ pr_adj_LGM' =
                    IF n >= 4 THEN params.LGM_precip_adjustment ELSE pr_adj_LGM
              /\ IF stage = "none"
                 THEN LET st == initialize(params, obs, proxy, usurf.shape)
                      IN  /\ calendar_years' = st.calendar_years
                          /\ glacial_index' = st.glacial_index
                          /\ delta_T_data' = st.delta_T_data
                          /\ air_temp' = st.air_temp
                          /\ precipitation' = st.precipitation
                          /\ tlast_clim_oggm' = st.tlast_clim_oggm
                          /\ tcomp_clim_oggm' = st.tcomp_clim_oggm
                          /\ pc' = "constructed"
                 ELSE /\ UNCHANGED <<calendar_years, glacial_index, delta_T_data,
                                     air_temp, precipitation, tlast_clim_oggm,
                                     tcomp_clim_oggm>>
                      /\ pc' = "failed"
              /\ last_call' = [module |-> "initialize", outcome |-> stage, time |-> t]
    /\ UNCHANGED <<nsteps, t, usurf, icemask, params, meanprec, meantemp>>
    /\ UNCHANGED <<modeled_anomaly, anomaly_temperature, anomaly_precipitation>>
    /\ UNCHANGED <<smb_vars, query_vars, pass_vars, resample_vars>>

\* the gate on the distance in time, whichever way the time has moved
clim_gate_either_way(time, tlast, freq) == Abs(time - tlast) >= freq

\* the gate with > for >=
clim_gate_strict(time, tlast, freq) == (time - tlast) > freq

\* if (state.t - state.tlast_clim_oggm) >= params.paleo_clim_update_freq
clim_gate(time, tlast, freq) == (time - tlast) >= freq

\* temp_corr_addi before it is added: the lapse-rate correction tiled over the months
temp_corr_addi(gradient, surface, elevation) ==
    Tile(ExpandDims0(TMap(LAMBDA v : RMul(gradient, v), TZip(RSub, surface, elevation))),
         <<number_months, 1, 1>>)

\* the statements of update that can raise: the subtraction, the tile, the addition
temp_corr_raises(temp, surface, elevation) ==
    \/ ~BroadcastOK(surface.shape, elevation.shape)
    \/ ~TileOK(ExpandDims0(Zeros(Broadcast(surface.shape, elevation.shape))),
               <<number_months, 1, 1>>)
    \/ ~BroadcastOK(temp.shape,
                    <<number_months>> \o Broadcast(surface.shape, elevation.shape))

\* a `+=` in place of line 177's new array: dT lands in state.temp_obs as well
temp_obs_added_in_place(observed, dT) == TMap(LAMBDA v : RAdd(v, dT), observed)

\* state.temp_obs after a recomputation: line 177 reads it into a new array
\* and assigns that to state.air_temp
temp_obs_after_update(observed, dT) == observed

clim_update ==
    /\ pc = "clim"
    /\ IF ~clim_gate(t, tlast_clim_oggm, params.paleo_clim_update_freq)
       THEN /\ UNCHANGED <<clim_vars, temp_obs>>
            /\ last_call' = [module |-> "clim", outcome |-> "skip", time |-> t]
            /\ pc' = "smb"
       ELSE IF \/ np_interp_raises(t, calendar_years, glacial_index)
               \/ np_interp_raises(t, calendar_years, delta_T_data)
       THEN \* except ValueError: nothing has been assigned yet; the handler's
            \* logger.error names a logger the module never defines
            /\ UNCHANGED <<clim_vars, temp_obs>>
            /\ last_call' = [module |-> "clim", outcome |-> "no_data", time |-> t]
            /\ pc' = "failed"
       ELSE LET G == glacial_index_at_runtime(t)
                dT == dT_at_runtime(t)
                prec == TMap(LAMBDA v : glacial_index_precipitation(v, G, pr_adj_LGM),
                             prec_obs)
                temp == TMap(LAMBDA v : RAdd(v, dT), temp_obs)
            IN  IF temp_corr_raises(temp, usurf, observed_elevation)
                THEN /\ tcomp_clim_oggm' = Append(tcomp_clim_oggm, "started")
                     /\ precipitation' = prec
                     /\ air_temp' = temp
                     /\ temp_obs' = temp_obs_after_update(temp_obs, dT)
                     /\ UNCHANGED <<meanprec, meantemp, tlast_clim_oggm>>
                     /\ last_call' = [module |-> "clim", outcome |-> "raise", time |-> t]
                     /\ pc' = "failed"
                ELSE LET final == TZip(RAdd, temp,
                                       temp_corr_addi(params.temp_default_gradient,
                                                      usurf, observed_elevation))
                     IN  /\ tcomp_clim_oggm' = Append(tcomp_clim_oggm, "elapsed")
                         /\ precipitation' = prec
                         /\ air_temp' = final
                         /\ temp_obs' = temp_obs_after_update(temp_obs, dT)
                         /\ meanprec' = ReduceMean0(prec)
                         /\ meantemp' = ReduceMean0(final)
                         /\ tlast_clim_oggm' = t
                         /\ last_call' = [module |-> "clim", outcome |-> "done", time |-> t]
                         /\ pc' = "smb"
    /\ UNCHANGED <<nsteps, t, usurf, icemask, params>>
    /\ UNCHANGED <<observed_elevation, prec_obs, pr_adj_LGM, calendar_years,
                   glacial_index, delta_T_data, attrs>>
    /\ UNCHANGED <<modeled_anomaly, anomaly_temperature, anomaly_precipitation>>
    /\ UNCHANGED <<smb_vars, query_vars, pass_vars, resample_vars>>

----------------------------------------------------------------------------
(* download_epica_to_netcdf.py, epica_to_yearly_csv.py                     *)

\* a list back to front
Reverse(list) == [j \in 1..Len(list) |-> list[Len(list) + 1 - j]]

\* np.arange(start, stop)
arange(start, stop) == [j \in 1..(stop - start) |-> start + j - 1]

\* interp1d(times, temperatures, kind='linear', fill_value="extrapolate") at
\* year x: interp1d sorts the samples, which the file gives youngest first
interp_func(x, sample_times, sample_temperatures) ==
    LET xp == Reverse(sample_times)
        fp == Reverse(sample_temperatures)
        n == Len(xp)
        \* the segment x falls in; the first or the last one for x outside
        j == IF x < xp[1] THEN 1
             ELSE IF x >= xp[n] THEN n - 1
             ELSE CHOOSE k \in 1..(n - 1) : xp[k] <= x /\ x < xp[k + 1]
    IN  RAdd(fp[j], RMul(RDiv(RSub(fp[j + 1], fp[j]), R(xp[j + 1] - xp[j])),
                         R(x - xp[j])))

\* epica_to_netcdf and epica_to_yearly_csv from the two lists to delta_T
epica_to_netcdf ==
    /\ pc = "resample"
    /\ d_t_range' = arange(d_t_range_start, d_t_range_stop)
    /\ yearly_delta_T' = [j \in 1..(d_t_range_stop - d_t_range_start) |->
                             interp_func(d_t_range_start + j - 1, times, temperatures)]
    /\ pc' = "resampled"
    /\ UNCHANGED <<nsteps, t, usurf, icemask, params, times, temperatures>>
    /\ UNCHANGED <<static_vars, clim_vars, smb_vars, last_call, query_vars, pass_vars>>

----------------------------------------------------------------------------
(* paleo_smb.py                                                            *)

\* the gate with > for >=
smb_gate_strict(time, tlast, freq) == RLt(R(freq), RSub(R(time), tlast))

\* the gate without the cadence: any time at or after the marker passes
smb_gate_no_cadence(time, tlast, freq) == RLe(R(0), RSub(R(time), tlast))

\* if (state.t - state.tlast_mb) >= params.smb_paleo_update_freq
smb_gate(time, tlast, freq) == RLe(R(freq), RSub(R(time), tlast))

\* Python's int() of a float: truncation toward zero
IntTrunc(r) == IF r.n >= 0 THEN r.n \div r.d ELSE -((-r.n) \div r.d)

\* the shift taken as a number of months, not as a fraction of the year
hydro_month_unscaled(n, months, shift) == (n + IntTrunc(shift)) % months

\* k = (kk + int(shape[0] * shift_hydro_year)) % shape[0]
hydro_month(n, months, shift) == (n + IntTrunc(RMul(R(months), shift))) % months

\* the partition with < for <= and > for >=: at a threshold the ramp is taken
solid_precipitation_strict(temp, prec, thr_temp_snow, thr_temp_rain) ==
    IF RLt(temp, thr_temp_snow) THEN prec
    ELSE IF RLt(thr_temp_rain, temp) THEN R(0)
    ELSE RDiv(RMul(prec, RSub(thr_temp_rain, temp)), RSub(thr_temp_rain, thr_temp_snow))

\* solid precipitation of one cell and month: all of it up to thr_temp_snow,
\* none from thr_temp_rain on, a linear transition in between
solid_precipitation(temp, prec, thr_temp_snow, thr_temp_rain) ==
    IF RLe(temp, thr_temp_snow) THEN prec
    ELSE IF RLe(thr_temp_rain, temp) THEN R(0)
    ELSE RDiv(RMul(prec, RSub(thr_temp_rain, temp)), RSub(thr_temp_rain, thr_temp_snow))

\* accumulation after the two unit conversions, in m of water per month
accumulation_field(p, temp, prec) ==
    LET solid == TZip(LAMBDA T, P : solid_precipitation(T, P,
                                        p.smb_temp_solid_precipitation,
                                        p.smb_temp_liquid_precipitation),
                      temp, prec)
    IN  TMap(LAMBDA v : RDiv(RDiv(v, R(solid.shape[1])), p.smb_oggm_wat_density), solid)

\* pos_temp_year: the positive part of the temperature, per month
pos_temp_field(temp) ==
    TMap(LAMBDA v : RDiv(IF RLt(R(0), v) THEN v ELSE R(0), R(temp.shape[1])), temp)

\* the melt without the blend: once the snow cannot take all the degree-days,
\* they still melt at the snow factor
month_ablation_no_blend(depth_before, pos_temp, melt_factor_snow, melt_factor_ice) ==
    IF REq(depth_before, R(0)) THEN RMul(pos_temp, melt_factor_ice)
    ELSE RMul(pos_temp, melt_factor_snow)

\* ablation of one cell in one month, from the snow depth after accumulation
month_ablation(depth_before, pos_temp, melt_factor_snow, melt_factor_ice) ==
    IF REq(depth_before, R(0)) THEN RMul(pos_temp, melt_factor_ice)
    ELSE IF RLt(RMul(pos_temp, melt_factor_snow), depth_before)
         THEN RMul(pos_temp, melt_factor_snow)
    ELSE RAdd(depth_before,
              RMul(RSub(pos_temp, RDiv(depth_before, melt_factor_snow)), melt_factor_ice))

\* tf.clip_by_value
clip_by_value(v, lo, hi) == IF RLt(v, lo) THEN lo ELSE IF RLt(hi, v) THEN hi ELSE v

\* the upper limit 1.0e10 of the snow-depth clip is beyond TLC's integers;
\* 10^9 stands for it, no depth of the model comes near either
snow_depth_limit == R(10^9)

\* the loop over the months of one cell: the list "ablation", from month n on
RECURSIVE ablation_list(_, _, _, _, _)
ablation_list(n, depth_before, acc, pos, p) ==
    IF n >= Len(pos) THEN <<>>
    ELSE LET k == hydro_month(n, Len(pos), p.smb_accpdd_shift_hydro_year)
             depth == RAdd(depth_before, acc[k + 1])
             abl == month_ablation(depth, pos[k + 1],
                                   p.smb_accpdd_melt_factor_snow,
                                   p.smb_accpdd_melt_factor_ice)
         IN  <<abl>> \o ablation_list(n + 1,
                                      clip_by_value(RSub(depth, abl), R(0), snow_depth_limit),
                                      acc, pos, p)

RECURSIVE balance_sum(_, _, _, _)
balance_sum(m, acc, abl, refreeze) ==
    IF m = 0 THEN R(0)
    ELSE RAdd(balance_sum(m - 1, acc, abl, refreeze),
              RSub(acc[m], RMul(RSub(R(1), refreeze), abl[m])))

\* state.smb before the ice mask
mass_balance(p, temp, prec) ==
    LET solid == accumulation_field(p, temp, prec)
        positive == pos_temp_field(temp)
        months == temp.shape[1]
        cells == Broadcast(<<temp.shape[2], temp.shape[3]>>, Tail(solid.shape))
    IN  Tensor(cells,
               LAMBDA i :
                 LET acc == [m \in 1..months |->
                               solid.data[<<m>> \o Proj(i, Tail(solid.shape))]]
                     pos == [m \in 1..months |->
                               positive.data[<<m>> \o Proj(i, Tail(temp.shape))]]
                     abl == ablation_list(0, R(0), acc, pos, p)
                 IN  RMul(balance_sum(months, acc, abl, p.smb_accpdd_refreeze_factor),
                          RDiv(p.smb_oggm_wat_density, p.smb_oggm_ice_density)))

\* the mask with "and" for "or": a cell is kept only if it is both negative and iced
apply_icemask_both(balance, mask) ==
    TZip(LAMBDA b, m : IF RLt(b, R(0)) /\ RLt(Rat(1, 2), m) THEN b ELSE R(-10),
         balance, mask)

\* tf.where((state.smb < 0) | (state.icemask > 0.5), state.smb, -10)
apply_icemask(balance, mask) ==
    TZip(LAMBDA b, m : IF RLt(b, R(0)) \/ RLt(Rat(1, 2), m) THEN b ELSE R(-10),
         balance, mask)

\* the statements of the pass that raise before state.smb is assigned
mass_balance_raises(temp, prec) ==
    \/ ~BroadcastOK(temp.shape, prec.shape)
    \/ Len(temp.shape) < 3
    \/ ~BroadcastOK(<<temp.shape[2], temp.shape[3]>>,
                    Tail(Broadcast(temp.shape, prec.shape)))

smb_update ==
    /\ pc = "smb"
    /\ IF ~smb_gate(t, tlast_mb, params.smb_paleo_update_freq)
       THEN /\ UNCHANGED smb_vars
            /\ last_call' = [module |-> "smb", outcome |-> "skip", time |-> t]
            /\ pc' = "time"
       ELSE IF mass_balance_raises(air_temp, precipitation)
       THEN /\ tcomp_smb_paleo' = Append(tcomp_smb_paleo, "started")
            /\ UNCHANGED <<smb, tlast_mb>>
            /\ last_call' = [module |-> "smb", outcome |-> "raise", time |-> t]
            /\ pc' = "failed"
       ELSE LET balance == mass_balance(params, air_temp, precipitation)
            IN  IF icemask # Unset /\ ~BroadcastOK(balance.shape, icemask.shape)
                THEN /\ tcomp_smb_paleo' = Append(tcomp_smb_paleo, "started")
                     /\ smb' = balance
                     /\ UNCHANGED tlast_mb
                     /\ last_call' = [module |-> "smb", outcome |-> "raise", time |-> t]
                     /\ pc' = "failed"
                ELSE /\ tcomp_smb_paleo' = Append(tcomp_smb_paleo, "elapsed")
                     /\ smb' = IF icemask # Unset THEN apply_icemask(balance, icemask)
                                                  ELSE balance
                     /\ tlast_mb' = R(t)
                     /\ last_call' = [module |-> "smb", outcome |-> "done", time |-> t]
                     /\ pc' = "time"
    /\ UNCHANGED <<nsteps, t, usurf, icemask, params>>
    /\ UNCHANGED <<static_vars, clim_vars, query_vars, pass_vars, resample_vars>>

\* the snow depth of the previous pass kept instead of the zeros
snow_depth_carried(previous, temp) ==
    IF previous = Unset THEN Zeros(<<temp.shape[2], temp.shape[3]>>) ELSE previous

\* snow_depth = tf.zeros((state.air_temp.shape[1], state.air_temp.shape[2]))
initial_snow_depth(previous, temp) == Zeros(<<temp.shape[2], temp.shape[3]>>)

\* tf.stack(ablation, axis=0) of a list of arrays of one shape
Stack(list) ==
    [shape |-> <<Len(list)>> \o list[1].shape,
     data  |-> [i \in Idx(<<Len(list)>> \o list[1].shape) |-> list[i[1]].data[Tail(i)]]]

\* ablation = (1 - params.smb_accpdd_refreeze_factor) * tf.stack(ablation, axis=0)
refrozen(refreeze, recorded) ==
    [shape |-> recorded.shape,
     data  |-> [i \in DOMAIN recorded.data |->
                  RMul(RSub(R(1), refreeze), recorded.data[i])]]

\* month k's slice of the accumulation added to the snow depth
depth_after_accumulation(depth, solid, k) == TZip(RAdd, depth, Slice0(solid, k))

\* the refreezing taken off inside the loop, month by month
ablation_of_month_refrozen(depth, positive, k, p) ==
    TZip(LAMBDA d, pt : RMul(RSub(R(1), p.smb_accpdd_refreeze_factor),
                             month_ablation(d, pt, p.smb_accpdd_melt_factor_snow,
                                            p.smb_accpdd_melt_factor_ice)),
         depth, Slice0(positive, k))

\* the tf.where of the loop body, over the grid
ablation_of_month(depth, positive, k, p) ==
    TZip(LAMBDA d, pt : month_ablation(d, pt, p.smb_accpdd_melt_factor_snow,
                                       p.smb_accpdd_melt_factor_ice),
         depth, Slice0(positive, k))

\* the snow depth left without the clip
depth_after_ablation_unclipped(depth, abl) == TZip(RSub, depth, abl)

\* snow_depth = tf.clip_by_value(snow_depth - ablation[-1], 0.0, 1.0e10)
depth_after_ablation(depth, abl) ==
    TMap(LAMBDA v : clip_by_value(v, R(0), snow_depth_limit), TZip(RSub, depth, abl))

\* update of paleo_smb.py from its gate to the start of the loop
smb_pass_enter ==
    /\ pc = "pass_enter"
    /\ smb_gate(t, tlast_mb, params.smb_paleo_update_freq)
    /\ tcomp_smb_paleo' = Append(tcomp_smb_paleo, "started")
    /\ accumulation' = accumulation_field(params, air_temp, precipitation)
    /\ pos_temp_year' = pos_temp_field(air_temp)
    /\ ablation' = <<>>
    /\ snow_depth' = initial_snow_depth(snow_depth, air_temp)
    /\ kk' = 0
    /\ months_visited' = <<>>
    /\ pc' = "pass_loop"
    /\ UNCHANGED <<nsteps, t, usurf, icemask, params, smb, tlast_mb, last_call>>
    /\ UNCHANGED <<static_vars, clim_vars, query_vars, resample_vars>>

\* one iteration of the loop over the months
smb_pass_month ==
    /\ pc = "pass_loop"
    /\ kk < air_temp.shape[1]
    /\ LET k == hydro_month(kk, air_temp.shape[1], params.smb_accpdd_shift_hydro_year)
           depth == depth_after_accumulation(snow_depth, accumulation, k)
           abl == ablation_of_month(depth, pos_temp_year, k, params)
       IN  /\ ablation' = Append(ablation, abl)
           /\ snow_depth' = depth_after_ablation(depth, abl)
           /\ months_visited' = Append(months_visited, k)
    /\ kk' = kk + 1
    /\ UNCHANGED <<host_vars, static_vars, clim_vars, smb_vars, last_call, query_vars, resample_vars>>
    /\ UNCHANGED <<accumulation, pos_temp_year>>

\* update of paleo_smb.py from the end of the loop to its return
smb_pass_finish ==
    /\ pc = "pass_loop"
    /\ kk = air_temp.shape[1]
    /\ LET net == refrozen(params.smb_accpdd_refreeze_factor, Stack(ablation))
           balance == TMap(LAMBDA v : RMul(v, RDiv(params.smb_oggm_wat_density,
                                                   params.smb_oggm_ice_density)),
                           ReduceSum0(TZip(RSub, accumulation, net)))
       IN  /\ ablation' = net
           /\ smb' = IF icemask # Unset THEN apply_icemask(balance, icemask) ELSE balance
    /\ tlast_mb' = R(t)
    /\ tcomp_smb_paleo' = [tcomp_smb_paleo EXCEPT ![Len(tcomp_smb_paleo)] = "elapsed"]
    /\ last_call' = [module |-> "smb", outcome |-> "done", time |-> t]
    /\ pc' = "pass_done"
    /\ UNCHANGED <<nsteps, t, usurf, icemask, params>>
    /\ UNCHANGED <<static_vars, clim_vars, query_vars, resample_vars>>
    /\ UNCHANGED <<accumulation, pos_temp_year, snow_depth, kk, months_visited>>

----------------------------------------------------------------------------
(* paleo_clim.py: the glacial-index climate with a modelled anomaly        *)

\* the smaller of two lengths
Min(a, b) == IF a <= b THEN a ELSE b

\* a[:, :target_y]: only trailing rows are dropped
crop_rows_only(A, target_y, target_x) ==
    Tensor(<<A.shape[1], Min(A.shape[2], target_y)>> \o Tail(Tail(A.shape)),
           LAMBDA i : A.data[i])

\* a[:, :target_y, :target_x]: trailing rows and columns are dropped, an axis
\* shorter than the target keeps its length
crop(A, target_y, target_x) ==
    Tensor(<<A.shape[1], Min(A.shape[2], target_y), Min(A.shape[3], target_x)>>
               \o Tail(Tail(Tail(A.shape))),
           LAMBDA i : A.data[i])

\* the statements of paleo_clim's initialize that raise IndexError: shape[1] and
\* shape[2] of a field of rank below 3, three indices into an array of rank below 3
paleo_initialize_raises(temp, anom_temp, anom_prec) ==
    \/ Len(temp.shape) < 3
    \/ /\ Tail(anom_temp.shape) # <<temp.shape[2], temp.shape[3]>>
       /\ (Len(anom_temp.shape) < 3 \/ Len(anom_prec.shape) < 3)

\* what paleo_clim's initialize leaves on state
paleo_initialize_fields(p, obs, anomaly, proxy, grid) ==
    LET temp == TMap(LAMBDA v : RMul(RAdd(v, p.temperature_addition),
                                     p.temperature_scaling),
                     Squeeze(obs.air_temp))
        prec == TMap(LAMBDA v : RMul(v, p.precipitation_scaling),
                     ReduceSum0(Squeeze(obs.precipitation)))
        anom_temp == Squeeze(anomaly.air_temp)
        anom_prec == Squeeze(anomaly.precipitation)
        differs == Tail(anom_temp.shape) # <<temp.shape[2], temp.shape[3]>>
        delta_T == [j \in 1..Len(proxy.delta_T) |-> R(proxy.delta_T[j])]
    IN  [ temp |-> temp,
          prec |-> prec,
          anomaly_temperature |->
              IF differs THEN crop(anom_temp, temp.shape[2], temp.shape[3]) ELSE anom_temp,
          anomaly_precipitation |->
              IF differs THEN crop(anom_prec, temp.shape[2], temp.shape[3]) ELSE anom_prec,
          delta_T_data |-> delta_T,
          glacial_index |-> normalized_glacial_index(proxy.time, delta_T),
          calendar_years |-> [j \in 1..Len(proxy.time) |-> proxy.time[j] - p.year_0],
          air_temp |-> Zeros(<<number_months, grid[1], grid[2]>>),
          precipitation |-> Zeros(<<number_months, grid[1], grid[2]>>) ]

\* initialize of paleo_clim.py
paleo_initialize ==
    /\ pc = "paleo_init"
    /\ \E proxy \in ProxyFiles :
          LET obs == ObsFile(usurf.shape, usurf.shape, usurf.shape)
              temp == Squeeze(obs.air_temp)
              anom_temp == Squeeze(modeled_anomaly.air_temp)
              anom_prec == Squeeze(modeled_anomaly.precipitation)
          IN  IF paleo_initialize_raises(temp, anom_temp, anom_prec)
              THEN /\ temp_obs' = TMap(LAMBDA v : RMul(RAdd(v, params.temperature_addition),
                                                       params.temperature_scaling), temp)
                   /\ prec_obs' = TMap(LAMBDA v : RMul(v, params.precipitation_scaling),
                                       ReduceSum0(Squeeze(obs.precipitation)))
                   /\ anomaly_temperature' = anom_temp
                   /\ anomaly_precipitation' = anom_prec
                   /\ attrs' = {"temp", "prec", "anomaly_temperature",
                                "anomaly_precipitation"}
                   /\ UNCHANGED <<calendar_years, glacial_index, delta_T_data,
                                  air_temp, precipitation>>
                   /\ last_call' = [module |-> "paleo_initialize", outcome |-> "raise",
                                    time |-> t]
                   /\ pc' = "failed"
              ELSE LET st == paleo_initialize_fields(params, obs, modeled_anomaly,
                                                    proxy, usurf.shape)
                   IN  /\ temp_obs' = st.temp
                       /\ prec_obs' = st.prec
                       /\ anomaly_temperature' = st.anomaly_temperature
                       /\ anomaly_precipitation' = st.anomaly_precipitation
                       /\ attrs' = {"temp", "prec", "anomaly_temperature",
                                    "anomaly_precipitation", "delta_temperature_time_data",
                                    "glacial_index_at_runtime", "air_temp",
                                    "precipitation", "tlast_clim_oggm", "tcomp_clim_oggm"}
                       /\ calendar_years' = st.calendar_years
                       /\ glacial_index' = st.glacial_index
                       /\ delta_T_data' = st.delta_T_data
                       /\ air_temp' = st.air_temp
                       /\ precipitation' = st.precipitation
                       /\ last_call' = [module |-> "paleo_initialize", outcome |-> "done",
                                        time |-> t]
                       /\ pc' = "paleo_clim"
    /\ UNCHANGED <<nsteps, t, usurf, icemask, params>>
    /\ UNCHANGED <<observed_elevation, pr_adj_LGM, modeled_anomaly>>
    /\ UNCHANGED <<meanprec, meantemp, tlast_clim_oggm, tcomp_clim_oggm>>
    /\ UNCHANGED <<smb_vars, query_vars, pass_vars, resample_vars>>

\* observed + (1 - G) * anomaly
glacial_index_anomaly(observed, G, anomaly) ==
    RAdd(observed, RMul(RSub(R(1), G), anomaly))

\* the statements of paleo_clim's update that raise on shapes: the two
\* numpy sums, the tile of the correction, the addition of the correction
paleo_update_raises(temp, prec, anom_temp, anom_prec, surface) ==
    \/ ~BroadcastOK(prec.shape, anom_prec.shape)
    \/ ~BroadcastOK(temp.shape, anom_temp.shape)
    \/ ~TileOK(ExpandDims0(surface), <<number_months, 1, 1>>)
    \/ ~BroadcastOK(Broadcast(temp.shape, anom_temp.shape),
                    <<number_months>> \o surface.shape)

\* update of paleo_clim.py
paleo_update ==
    /\ pc = "paleo_clim"
    /\ IF ~clim_gate(t, tlast_clim_oggm, params.paleo_clim_update_freq)
       THEN /\ UNCHANGED clim_vars
            /\ last_call' = [module |-> "paleo_clim", outcome |-> "skip", time |-> t]
            /\ pc' = "paleo_time"
       ELSE IF np_interp_raises(t, calendar_years, glacial_index)
       THEN /\ UNCHANGED clim_vars
            /\ last_call' = [module |-> "paleo_clim", outcome |-> "no_data", time |-> t]
            /\ pc' = "failed"
       ELSE LET G == glacial_index_at_runtime(t)
            IN  IF paleo_update_raises(temp_obs, prec_obs, anomaly_temperature,
                                       anomaly_precipitation, usurf)
                THEN /\ tcomp_clim_oggm' = Append(tcomp_clim_oggm, "started")
                     /\ precipitation' =
                           IF BroadcastOK(prec_obs.shape, anomaly_precipitation.shape)
                           THEN TZip(LAMBDA o, a : glacial_index_anomaly(o, G, a),
                                     prec_obs, anomaly_precipitation)
                           ELSE precipitation
                     /\ air_temp' =
                           IF /\ BroadcastOK(prec_obs.shape, anomaly_precipitation.shape)
                              /\ BroadcastOK(temp_obs.shape, anomaly_temperature.shape)
                           THEN TZip(LAMBDA o, a : glacial_index_anomaly(o, G, a),
                                     temp_obs, anomaly_temperature)
                           ELSE air_temp
                     /\ UNCHANGED <<meanprec, meantemp, tlast_clim_oggm>>
                     /\ last_call' = [module |-> "paleo_clim", outcome |-> "raise",
                                      time |-> t]
                     /\ pc' = "failed"
                ELSE LET prec == TZip(LAMBDA o, a : glacial_index_anomaly(o, G, a),
                                      prec_obs, anomaly_precipitation)
                         temp == TZip(LAMBDA o, a : glacial_index_anomaly(o, G, a),
                                      temp_obs, anomaly_temperature)
                         corr == Tile(ExpandDims0(TMap(LAMBDA v :
                                          RMul(params.temp_default_gradient, v), usurf)),
                                      <<number_months, 1, 1>>)
                         final == TZip(RAdd, temp, corr)
                     IN  /\ tcomp_clim_oggm' = Append(tcomp_clim_oggm, "elapsed")
                         /\ precipitation' = prec
                         /\ air_temp' = final
                         /\ meanprec' = ReduceMean0(prec)
                         /\ meantemp' = ReduceMean0(final)
                         /\ tlast_clim_oggm' = t
                         /\ last_call' = [module |-> "paleo_clim", outcome |-> "done",
                                          time |-> t]
                         /\ pc' = "paleo_time"
    /\ UNCHANGED <<nsteps, t, usurf, icemask, params>>
    /\ UNCHANGED <<static_vars, smb_vars, query_vars, pass_vars, resample_vars>>

----------------------------------------------------------------------------
(* The host: it sets up the state, calls initialize of both modules, and   *)
(* then in every step calls the climate update, the mass-balance update    *)
(* and advances the time.                                                  *)

Scenario ==
    [ grid   |-> <<2, 2>>,
      shapeT |-> <<2, 2>>,
      shapeP |-> <<2, 2>>,
      shapeE |-> <<2, 2>>,
      proxy  |-> [time |-> <<-6, -4, -2, 0>>, delta_T |-> <<-4, -8, -2, 0>>],
      mask   |-> FALSE,
      nodata |-> FALSE,
      params |-> DefaultParams ]

Scenarios ==
    { [Scenario EXCEPT !.params.paleo_clim_update_freq = fc,
                       !.params.smb_paleo_update_freq = fs] :
        fc \in {1, 2}, fs \in {1, 2} }
    \cup { [Scenario EXCEPT !.proxy = px] : px \in ProxyFiles }
    \cup { [Scenario EXCEPT !.mask = TRUE, !.params.smb_paleo_update_freq = 2,
                            !.nodata = TRUE] }
    \cup { [Scenario EXCEPT !.params.temperature_addition = R(-20),
                            !.params.smb_accpdd_melt_factor_snow = R(0),
                            !.params.smb_accpdd_melt_factor_ice = R(0)] }
    \cup { [Scenario EXCEPT !.params.LGM_precip_adjustment = a] :
             a \in {R(0), R(1), Rat(3, 2)} }
    \cup { [Scenario EXCEPT !.shapeP = <<3, 2>>],
           [Scenario EXCEPT !.shapeE = <<3, 2>>],
           [Scenario EXCEPT !.shapeT = <<3, 2>>],
           [Scenario EXCEPT !.grid = <<1, 2>>, !.shapeT = <<1, 2>>,
                            !.shapeP = <<1, 2>>, !.shapeE = <<1, 2>>] }

IndexScenarios ==
    { [Scenario EXCEPT !.proxy = px,
                       !.params.year_0 = y0,
                       !.params.polar_amplification_adjustment = pa] :
        px \in IndexProxyFiles, y0 \in {195, 0}, pa \in {Rat(1, 2), R(1), R(2)} }

\* no core has been resampled
NoResample ==
    /\ times = <<>> /\ temperatures = <<>>
    /\ d_t_range = <<>> /\ yearly_delta_T = <<>>

\* no mass-balance pass is under way: its locals do not exist
NoPass ==
    /\ accumulation = Unset /\ pos_temp_year = Unset
    /\ ablation = <<>> /\ snow_depth = Unset
    /\ kk = 0 /\ months_visited = <<>>

\* the state after both initialize calls, for one set of inputs
Initialized(sc, start, phase) ==
    LET obs == IF sc.nodata THEN ObsFileNoData(sc.shapeT, sc.shapeP, sc.shapeE)
                            ELSE ObsFile(sc.shapeT, sc.shapeP, sc.shapeE)
        st == initialize(sc.params, obs, sc.proxy, sc.grid)
    IN  /\ pc = phase
        /\ nsteps = 0
        /\ t = start
        /\ usurf = Surface(sc.grid, 0)
        /\ icemask = IF sc.mask THEN Icemask(sc.grid) ELSE Unset
        /\ params = sc.params
        /\ observed_elevation = st.observed_elevation
        /\ temp_obs = st.temp_obs
        /\ prec_obs = st.prec_obs
        /\ pr_adj_LGM = st.pr_adj_LGM
        /\ calendar_years = st.calendar_years
        /\ glacial_index = st.glacial_index
        /\ delta_T_data = st.delta_T_data
        /\ attrs = ClimAttrs
        /\ modeled_anomaly = NoAnomaly
        /\ anomaly_temperature = Unset /\ anomaly_precipitation = Unset
        /\ air_temp = st.air_temp
        /\ precipitation = st.precipitation
        /\ meanprec = Unset
        /\ meantemp = Unset
        /\ tlast_clim_oggm = st.tlast_clim_oggm
        /\ tcomp_clim_oggm = st.tcomp_clim_oggm
        /\ smb = Unset
        /\ tlast_mb = tlast_mb_init
        /\ tcomp_smb_paleo = <<>>
        /\ last_call = [module |-> "none", outcome |-> "none", time |-> start]
        /\ simulation_time = start
        /\ index_out = NaN
        /\ dT_out = NaN
        /\ NoPass
        /\ NoResample

Init == \E sc \in Scenarios, start \in StartTimes : Initialized(sc, start, "clim")

\* the state the host hands to the climate module's initialize
Unconstructed(sc, start) ==
    /\ pc = "init"
    /\ nsteps = 0
    /\ t = start
    /\ usurf = Surface(sc.grid, 0)
    /\ icemask = IF sc.mask THEN Icemask(sc.grid) ELSE Unset
    /\ params = sc.params
    /\ observed_elevation = Unset /\ temp_obs = Unset /\ prec_obs = Unset
    /\ pr_adj_LGM = NaN
    /\ calendar_years = <<>> /\ glacial_index = <<>> /\ delta_T_data = <<>>
    /\ attrs = {}
    /\ modeled_anomaly = NoAnomaly
    /\ anomaly_temperature = Unset /\ anomaly_precipitation = Unset
    /\ air_temp = Unset /\ precipitation = Unset
    /\ meanprec = Unset /\ meantemp = Unset
    /\ tlast_clim_oggm = tlast_clim_oggm_init
    /\ tcomp_clim_oggm = <<>>
    /\ smb = Unset
    /\ tlast_mb = tlast_mb_init
    /\ tcomp_smb_paleo = <<>>
    /\ last_call = [module |-> "none", outcome |-> "none", time |-> start]
    /\ simulation_time = start
    /\ index_out = NaN
    /\ dT_out = NaN
    /\ NoPass
    /\ NoResample

\* the host's time module: a new simulation time, and the ice surface of that time
time_update ==
    /\ pc = "time"
    /\ nsteps < MaxSteps
    /\ \E time \in TimeSet, thk \in Thicknesses :
          /\ t' = time
          /\ usurf' = Surface(usurf.shape, thk)
    /\ nsteps' = nsteps + 1
    /\ pc' = "clim"
    /\ UNCHANGED <<icemask, params, static_vars, clim_vars, smb_vars, last_call, query_vars, pass_vars, resample_vars>>

Next == clim_update \/ smb_update \/ time_update

Spec == Init /\ [][Next]_vars

----------------------------------------------------------------------------
(* The two runtime lambdas on their own, over many series and times.       *)

InitIndex == \E sc \in IndexScenarios : Initialized(sc, 0, "index")

call_at_runtime ==
    /\ pc \in {"index", "called"}
    /\ \E time \in QueryTimes :
          /\ simulation_time' = time
          /\ index_out' = glacial_index_at_runtime(time)
          /\ dT_out' = dT_at_runtime(time)
    /\ pc' = "called"
    /\ UNCHANGED <<nsteps, t, usurf, icemask, params>>
    /\ UNCHANGED <<static_vars, clim_vars, smb_vars, last_call, pass_vars, resample_vars>>

NextIndex == call_at_runtime

SpecIndex == InitIndex /\ [][NextIndex]_vars

----------------------------------------------------------------------------
(* The climate module's initialize on its own, over sound and unsound files. *)

InitConstruct == \E sc \in Scenarios, start \in StartTimes : Unconstructed(sc, start)

NextConstruct == clim_initialize

SpecConstruct == InitConstruct /\ [][NextConstruct]_vars

----------------------------------------------------------------------------
(* One mass-balance update after another, month by month.                  *)

InitPass ==
    \E p \in PassParams, forcing \in PassForcings, mask \in BOOLEAN :
        /\ mask => p = DefaultParams
        /\ pc = "pass_enter"
        /\ nsteps = 0
        /\ t = -199
        /\ usurf = Surface(<<1, 2>>, 0)
        /\ icemask = IF mask THEN Icemask(<<1, 2>>) ELSE Unset
        /\ params = p
        /\ observed_elevation = Unset /\ temp_obs = Unset /\ prec_obs = Unset
        /\ pr_adj_LGM = NaN
        /\ calendar_years = <<>> /\ glacial_index = <<>> /\ delta_T_data = <<>>
        /\ attrs = {}
        /\ modeled_anomaly = NoAnomaly
        /\ anomaly_temperature = Unset /\ anomaly_precipitation = Unset
        /\ air_temp = forcing.air_temp
        /\ precipitation = forcing.precipitation
        /\ meanprec = Unset /\ meantemp = Unset
        /\ tlast_clim_oggm = -199
        /\ tcomp_clim_oggm = <<"elapsed">>
        /\ smb = Unset
        /\ tlast_mb = tlast_mb_init
        /\ tcomp_smb_paleo = <<>>
        /\ last_call = [module |-> "clim", outcome |-> "done", time |-> -199]
        /\ simulation_time = -199
        /\ index_out = NaN
        /\ dT_out = NaN
        /\ NoPass
        /\ NoResample

\* the host's step between two passes: time moves on by the cadence and the
\* climate module hands over another forcing
smb_pass_again ==
    /\ pc = "pass_done"
    /\ nsteps < MaxPasses - 1
    /\ \E forcing \in PassForcings :
          /\ air_temp' = forcing.air_temp
          /\ precipitation' = forcing.precipitation
    /\ t' = t + params.smb_paleo_update_freq
    /\ tlast_clim_oggm' = t'
    /\ nsteps' = nsteps + 1
    /\ pc' = "pass_enter"
    /\ UNCHANGED <<usurf, icemask, params, static_vars, smb_vars, query_vars, pass_vars, resample_vars>>
    /\ UNCHANGED <<meanprec, meantemp, tcomp_clim_oggm, last_call>>

NextPass == smb_pass_enter \/ smb_pass_month \/ smb_pass_finish \/ smb_pass_again

SpecPass == InitPass /\ [][NextPass]_vars

----------------------------------------------------------------------------
(* The preprocessing of a core into a yearly series.                       *)

InitResample ==
    \E core \in CoreSeries :
        /\ pc = "resample"
        /\ nsteps = 0
        /\ t = 0
        /\ usurf = Unset
        /\ icemask = Unset
        /\ params = DefaultParams
        /\ observed_elevation = Unset /\ temp_obs = Unset /\ prec_obs = Unset
        /\ pr_adj_LGM = NaN
        /\ calendar_years = <<>> /\ glacial_index = <<>> /\ delta_T_data = <<>>
        /\ attrs = {}
        /\ modeled_anomaly = NoAnomaly
        /\ anomaly_temperature = Unset /\ anomaly_precipitation = Unset
        /\ air_temp = Unset /\ precipitation = Unset
        /\ meanprec = Unset /\ meantemp = Unset
        /\ tlast_clim_oggm = tlast_clim_oggm_init
        /\ tcomp_clim_oggm = <<>>
        /\ smb = Unset
        /\ tlast_mb = tlast_mb_init
        /\ tcomp_smb_paleo = <<>>
        /\ last_call = [module |-> "none", outcome |-> "none", time |-> 0]
        /\ simulation_time = 0
        /\ index_out = NaN
        /\ dT_out = NaN
        /\ NoPass
        /\ times = core.times
        /\ temperatures = core.temperatures
        /\ d_t_range = <<>>
        /\ yearly_delta_T = <<>>

NextResample == epica_to_netcdf

SpecResample == InitResample /\ [][NextResample]_vars

----------------------------------------------------------------------------
(* paleo_clim.py driven by the host, over anomaly files of several grids.  *)

InitPaleo ==
    \E grid \in PaleoGrids, shape \in AnomalyShapes, start \in StartTimes :
        /\ pc = "paleo_init"
        /\ nsteps = 0
        /\ t = start
        /\ usurf = Surface(grid, 0)
        /\ icemask = Unset
        /\ params = DefaultParams
        /\ modeled_anomaly = AnomalyFile(shape)
        /\ observed_elevation = Unset /\ temp_obs = Unset /\ prec_obs = Unset
        /\ anomaly_temperature = Unset /\ anomaly_precipitation = Unset
        /\ pr_adj_LGM = NaN
        /\ calendar_years = <<>> /\ glacial_index = <<>> /\ delta_T_data = <<>>
        /\ attrs = {}
        /\ air_temp = Unset /\ precipitation = Unset
        /\ meanprec = Unset /\ meantemp = Unset
        /\ tlast_clim_oggm = tlast_clim_oggm_init
        /\ tcomp_clim_oggm = <<>>
        /\ smb = Unset
        /\ tlast_mb = tlast_mb_init
        /\ tcomp_smb_paleo = <<>>
        /\ last_call = [module |-> "none", outcome |-> "none", time |-> start]
        /\ simulation_time = start
        /\ index_out = NaN
        /\ dT_out = NaN
        /\ NoPass
        /\ NoResample

\* the host's time module between two calls of paleo_clim's update
paleo_time_update ==
    /\ pc = "paleo_time"
    /\ nsteps < MaxSteps
    /\ \E time \in TimeSet, thk \in Thicknesses :
          /\ t' = time
          /\ usurf' = Surface(usurf.shape, thk)
    /\ nsteps' = nsteps + 1
    /\ pc' = "paleo_clim"
    /\ UNCHANGED <<icemask, params, static_vars, clim_vars, smb_vars, last_call, query_vars, pass_vars, resample_vars>>

NextPaleo == paleo_initialize \/ paleo_update \/ paleo_time_update

SpecPaleo == InitPaleo /\ [][NextPaleo]_vars

----------------------------------------------------------------------------
(* Properties.                                                             *)

ClimRecomputed == last_call.module = "clim" /\ last_call.outcome = "done"

SmbRecomputed == last_call.module = "smb" /\ last_call.outcome = "done"

\* the gates as the claims state them
ClimCadenceMet == t - tlast_clim_oggm >= params.paleo_clim_update_freq

SmbCadenceMet == tlast_mb.d = 0 \/ t - tlast_mb.n >= params.smb_paleo_update_freq

\* C1: a climate update call starts a recomputation if and only if
\* t - tlast_clim_oggm >= paleo_clim_update_freq, and a call whose gate is not
\* met leaves air_temp, precipitation, meanprec, meantemp and the marker as
\* they were.
C1_ClimateGate ==
    [][pc = "clim" =>
        /\ ClimCadenceMet <=> Len(tcomp_clim_oggm') = Len(tcomp_clim_oggm) + 1
        /\ ClimCadenceMet <=> last_call'.outcome \in {"done", "raise"}
        /\ ~ClimCadenceMet =>
              UNCHANGED <<air_temp, precipitation, meanprec, meantemp,
                          tlast_clim_oggm, tcomp_clim_oggm>>]_vars

\* a climate call that was held back by the gate after an earlier recomputation
C1_Witness ==
    /\ last_call.module = "clim" /\ last_call.outcome = "skip"
    /\ tcomp_clim_oggm # <<>>
    /\ meanprec # Unset
    /\ last_call.time - tlast_clim_oggm \in {0, 1}

C3_MassBalanceIdempotent ==
    [][(pc = "smb" /\ tcomp_smb_paleo # <<>> /\ ~SmbCadenceMet) =>
        /\ UNCHANGED <<smb, tlast_mb, tcomp_smb_paleo>>
        /\ last_call'.outcome = "skip"]_vars

\* a call at the very time of the previous pass, held back
C3_Witness ==
    /\ last_call.module = "smb" /\ last_call.outcome = "skip"
    /\ smb # Unset
    /\ tlast_mb = R(last_call.time)
    /\ tcomp_smb_paleo = <<"elapsed">>

\* C4: an update call that raises has changed no field of either module.
C4_AtomicOnFailure ==
    [][(pc \in {"clim", "smb"} /\ last_call'.outcome = "raise") =>
        UNCHANGED <<air_temp, precipitation, smb, tlast_clim_oggm, tlast_mb,
                    tcomp_clim_oggm, tcomp_smb_paleo>>]_vars

\* C5: with the same cadence in both modules, whenever the mass balance has
\* just been recomputed the climate has been recomputed, and at that same time.
C5_FreshClimateAtMassBalance ==
    (SmbRecomputed /\ params.paleo_clim_update_freq = params.smb_paleo_update_freq)
        => /\ tcomp_clim_oggm # <<>>
           /\ tlast_clim_oggm = last_call.time

\* the series has one smallest sample, and the sample closest to time 0 is not it
StrictMinimumNotPresent ==
    LET time_data == [j \in DOMAIN calendar_years |-> calendar_years[j] + params.year_0]
    IN  /\ \E j \in DOMAIN delta_T_data :
              \A k \in DOMAIN delta_T_data : k # j => RLt(delta_T_data[j], delta_T_data[k])
        /\ \E j \in DOMAIN delta_T_data :
              /\ \A k \in DOMAIN time_data : Abs(time_data[j]) <= Abs(time_data[k])
              /\ \E k \in DOMAIN delta_T_data : RLt(delta_T_data[k], delta_T_data[j])

\* the calendar year of the sample closest to time 0 (the first one of a tie)
PresentAnchorYear ==
    LET time_data == [j \in DOMAIN calendar_years |-> calendar_years[j] + params.year_0]
        j == CHOOSE a \in DOMAIN time_data :
                /\ \A k \in DOMAIN time_data : Abs(time_data[a]) <= Abs(time_data[k])
                /\ \A k \in 1..(a - 1) : Abs(time_data[k]) > Abs(time_data[a])
    IN  calendar_years[j]

\* the calendar year of the smallest sample
MinimumYear ==
    calendar_years[CHOOSE j \in DOMAIN delta_T_data :
                      \A k \in DOMAIN delta_T_data : RLe(delta_T_data[j], delta_T_data[k])]

\* C6: for a series with a strict minimum that is not its present sample,
\* glacial_index_at_runtime returns exactly 1 at the present anchor year and
\* exactly 0 at the year of the minimum.
C6_GlacialIndexAnchors ==
    (pc = "called" /\ StrictMinimumNotPresent) =>
        /\ simulation_time = PresentAnchorYear => index_out = R(1)
        /\ simulation_time = MinimumYear => index_out = R(0)

\* the index was asked at the year of the minimum, away from both ends
C6_Witness ==
    /\ pc = "called" /\ StrictMinimumNotPresent
    /\ simulation_time = MinimumYear
    /\ index_out = R(0)
    /\ params.year_0 = 195
    /\ MinimumYear # calendar_years[1]
    /\ PresentAnchorYear # calendar_years[Len(calendar_years)]

\* C7: at or before the oldest sample both lambdas return their value at the
\* oldest sample, at or after the newest sample their value at the newest.
C7_FlatExtrapolation ==
    pc = "called" =>
        /\ simulation_time <= calendar_years[1] =>
              /\ index_out = glacial_index[1]
              /\ dT_out = delta_T_data[1]
              /\ index_out = glacial_index_at_runtime(calendar_years[1])
              /\ dT_out = dT_at_runtime(calendar_years[1])
        /\ simulation_time >= calendar_years[Len(calendar_years)] =>
              /\ index_out = glacial_index[Len(glacial_index)]
              /\ dT_out = delta_T_data[Len(delta_T_data)]
              /\ index_out = glacial_index_at_runtime(calendar_years[Len(calendar_years)])
              /\ dT_out = dT_at_runtime(calendar_years[Len(calendar_years)])

\* the lambdas were asked well before the oldest sample of a series that
\* is not flat at its old end
C7_Witness ==
    /\ pc = "called"
    /\ Len(calendar_years) >= 2
    /\ simulation_time < calendar_years[1] - 1
    /\ IsFinite(index_out)
    /\ glacial_index[1] # glacial_index[2]
    /\ index_out = glacial_index[1]

\* C8: no climate update ends in the `except ValueError` branch, whatever the
\* simulation time; a call whose gate is met goes on to the recomputation, and
\* if it then raises it is for the shapes of the fields, not for the time.
C8_OutOfDomainNeverRaises ==
    /\ last_call.outcome # "no_data"
    /\ (last_call.module = "clim" /\ last_call.outcome = "skip") =>
          ~(last_call.time - tlast_clim_oggm >= params.paleo_clim_update_freq)
    /\ (last_call.module = "clim" /\ last_call.outcome = "raise") =>
          temp_corr_raises(air_temp, usurf, observed_elevation)

\* a second recomputation, after the newest sample
C8_Witness ==
    /\ ClimRecomputed
    /\ last_call.time > calendar_years[Len(calendar_years)]
    /\ Len(tcomp_clim_oggm) >= 2

\* glacial-index values the blend is compared at, inside and outside [0, 1]
IndexValues == {Rat(n, 4) : n \in (-4)..8}

\* C9: with LGM_precip_adjustment in [0, 1] and non-negative observed
\* precipitation, a larger glacial index never gives less precipitation, in
\* every cell and month: for the field just recomputed against any other
\* index value, and between any two index values.
C9_PrecipitationMonotone ==
    (/\ ClimRecomputed
     /\ RLe(R(0), pr_adj_LGM) /\ RLe(pr_adj_LGM, R(1))
     /\ \A i \in DOMAIN prec_obs.data : RLe(R(0), prec_obs.data[i])) =>
        \A i \in DOMAIN prec_obs.data :
            /\ \A g \in IndexValues :
                  LET G == glacial_index_at_runtime(last_call.time)
                      other == glacial_index_precipitation(prec_obs.data[i], g, pr_adj_LGM)
                  IN  /\ RLe(G, g) => RLe(precipitation.data[i], other)
                      /\ RLe(g, G) => RLe(other, precipitation.data[i])
            /\ \A g1, g2 \in IndexValues :
                  RLe(g1, g2) =>
                      RLe(glacial_index_precipitation(prec_obs.data[i], g1, pr_adj_LGM),
                          glacial_index_precipitation(prec_obs.data[i], g2, pr_adj_LGM))

\* a recomputation at an index strictly inside [0, 1] with an adjustment below 1
C9_Witness ==
    /\ ClimRecomputed
    /\ pr_adj_LGM = Rat(1, 2)
    /\ glacial_index_at_runtime(last_call.time) = Rat(3, 8)
    /\ \A i \in DOMAIN prec_obs.data : RLt(R(0), precipitation.data[i])
    /\ \E i \in DOMAIN prec_obs.data : RLt(precipitation.data[i], prec_obs.data[i])

\* C10: after a climate update that recomputed, air_temp and precipitation
\* have the shape (12, ny, nx) of the host's grid.
C10_OutputShape ==
    ClimRecomputed =>
        /\ air_temp.shape = <<number_months>> \o usurf.shape
        /\ precipitation.shape = <<number_months>> \o usurf.shape

\* no element of the array is NaN or infinite
AllFinite(A) == \A i \in DOMAIN A.data : IsFinite(A.data[i])

\* the observed fields, the proxy samples and the surface hold finite numbers
InputsNaNFree ==
    /\ AllFinite(temp_obs) /\ AllFinite(prec_obs) /\ AllFinite(observed_elevation)
    /\ AllFinite(usurf)
    /\ \A j \in DOMAIN delta_T_data : IsFinite(delta_T_data[j])

\* C11: with inputs free of NaN, after a recomputation no value of the glacial
\* index, of dT, of air_temp or of precipitation is NaN or the quotient of a
\* division by zero.
C11_NoUndefinedValues ==
    (ClimRecomputed /\ InputsNaNFree) =>
        /\ \A j \in DOMAIN glacial_index : IsFinite(glacial_index[j])
        /\ IsFinite(glacial_index_at_runtime(last_call.time))
        /\ IsFinite(dT_at_runtime(last_call.time))
        /\ AllFinite(air_temp)
        /\ AllFinite(precipitation)

\* every sample of the proxy series is 0
ConstantProxy == \A j \in DOMAIN delta_T_data : delta_T_data[j] = R(0)

\* C12: with a proxy series that is 0 at every sample the glacial index is 1 at
\* the time of every recomputation, precipitation is the observed precipitation
\* and air_temp the observed temperature plus the lapse-rate correction.
C12_ConstantProxy ==
    (ClimRecomputed /\ ConstantProxy) =>
        /\ glacial_index_at_runtime(last_call.time) = R(1)
        /\ precipitation = prec_obs
        /\ air_temp = TZip(RAdd, temp_obs,
                           temp_corr_addi(params.temp_default_gradient,
                                          usurf, observed_elevation))

\* C13: initialize never completes with observed temperature, precipitation
\* and elevation on grids of different spatial shapes.
C13_ObservedShapeCheck ==
    pc = "constructed" =>
        /\ Tail(temp_obs.shape) = Tail(prec_obs.shape)
        /\ Tail(temp_obs.shape) = observed_elevation.shape

\* C14: an initialize that fails for a missing variable, a missing proxy file
\* or an empty series has set no attribute on state.
C14_InitializeFailureTotal ==
    [][(pc = "init" /\ pc' = "failed") =>
          /\ attrs' = {}
          /\ UNCHANGED <<static_vars, clim_vars>>]_vars

\* the anomaly file's grid is not the observed (and simulated) one
AnomalyDiffers == Tail(modeled_anomaly.air_temp.shape) # usurf.shape

\* the anomaly file's grid has at least the rows and the columns of the observed one
AnomalyNoSmaller ==
    /\ modeled_anomaly.air_temp.shape[2] >= usurf.shape[1]
    /\ modeled_anomaly.air_temp.shape[3] >= usurf.shape[2]

PaleoRecomputed == last_call.module = "paleo_clim" /\ last_call.outcome = "done"

\* both anomaly fields are the leading (ny, nx) block of the file's fields
CroppedToObserved ==
    /\ anomaly_temperature.shape = <<number_months>> \o usurf.shape
    /\ anomaly_precipitation.shape = <<number_months>> \o usurf.shape
    /\ \A i \in DOMAIN anomaly_temperature.data :
          /\ anomaly_temperature.data[i] = modeled_anomaly.air_temp.data[i]
          /\ anomaly_precipitation.data[i] = modeled_anomaly.precipitation.data[i]

AllSolid ==
    \A i \in DOMAIN air_temp.data :
        RLt(air_temp.data[i], params.smb_temp_solid_precipitation)

\* the degree-day factors are both 0
NoMelt ==
    /\ params.smb_accpdd_melt_factor_snow = R(0)
    /\ params.smb_accpdd_melt_factor_ice = R(0)

\* C16: with every month below the snow threshold and both melt factors 0, after
\* a recomputation smb * ice density / water density is, in every cell, the sum
\* over the months of precipitation divided by the water density.
C16_AccumulationOnly ==
    (SmbRecomputed /\ AllSolid /\ NoMelt /\ icemask = Unset
        /\ Tail(precipitation.shape) = smb.shape) =>
        \A i \in DOMAIN smb.data :
            RDiv(RMul(smb.data[i], params.smb_oggm_ice_density),
                 params.smb_oggm_wat_density)
              = RDiv(ReduceSum0(precipitation).data[i], params.smb_oggm_wat_density)

\* state.smb as computed at the last recomputation, before the ice mask
ComputedSmb == mass_balance(params, air_temp, precipitation)

\* C17 as stated: with an ice mask, a cell with computed smb >= 0 and mask
\* <= 0.5 holds -10 and every other cell its computed smb; without a mask
\* every cell holds its computed smb.
C17_IceMaskSentinelAsStated ==
    SmbRecomputed =>
        IF icemask = Unset THEN smb = ComputedSmb
        ELSE \A i \in DOMAIN smb.data :
                IF RLe(R(0), ComputedSmb.data[i]) /\ RLe(icemask.data[i], Rat(1, 2))
                THEN smb.data[i] = R(-10)
                ELSE smb.data[i] = ComputedSmb.data[i]

\* C17, amended: with an ice mask, a cell with computed smb >= 0 and mask
\* <= 0.5 holds -10, a cell with computed smb < 0 or mask > 0.5 holds its
\* computed smb, and a cell whose computed smb is NaN holds -10 unless its
\* mask is > 0.5; without a mask every cell holds its computed smb.
C17_IceMaskSentinel ==
    SmbRecomputed =>
        IF icemask = Unset THEN smb = ComputedSmb
        ELSE \A computed \in {ComputedSmb} :
                \A i \in DOMAIN smb.data :
                    LET b == computed.data[i]
                        m == icemask.data[i]
                    IN  /\ (RLe(R(0), b) /\ RLe(m, Rat(1, 2))) => smb.data[i] = R(-10)
                        /\ (RLt(b, R(0)) \/ RLt(Rat(1, 2), m)) => smb.data[i] = b
                        /\ (IsNaN(b) /\ ~RLt(Rat(1, 2), m)) => smb.data[i] = R(-10)

\* a recomputation under a mask with a cell forced to -10 from a positive
\* balance, an iced cell that kept a positive balance, and a no-data cell
C17_Witness ==
    /\ SmbRecomputed /\ icemask # Unset
    /\ \E i \in DOMAIN smb.data :
          /\ RLt(R(0), ComputedSmb.data[i]) /\ icemask.data[i] = R(0)
          /\ smb.data[i] = R(-10)
    /\ \E i \in DOMAIN smb.data :
          /\ RLt(R(0), ComputedSmb.data[i]) /\ icemask.data[i] = R(1)
          /\ smb.data[i] = ComputedSmb.data[i]
    /\ \E i \in DOMAIN smb.data : IsNaN(ComputedSmb.data[i]) /\ smb.data[i] = R(-10)

\* C18: the mass balance is never recomputed from an air_temp or a
\* precipitation whose first axis is not 12 long or whose spatial shape is not
\* that of the surface elevation.
C18_MassBalanceShapeCheck ==
    SmbRecomputed =>
        /\ air_temp.shape = <<number_months>> \o usurf.shape
        /\ precipitation.shape = <<number_months>> \o usurf.shape

\* the two runtime lambdas return the same values before and after the step
LambdasUnchanged ==
    \A years \in {calendar_years'}, G \in {glacial_index'}, dT \in {delta_T_data'} :
        \A time \in TimeSet :
            /\ np_interp(time, years, G, G[1], G[Len(G)])
                   = glacial_index_at_runtime(time)
            /\ np_interp(time, years, dT, dT[1], dT[Len(dT)])
                   = dT_at_runtime(time)

\* a step taken by an update call leaves the stored inputs as they were
StaticInputsKept ==
    pc \in {"clim", "smb"} =>
        /\ UNCHANGED <<temp_obs, prec_obs, observed_elevation, pr_adj_LGM>>
        /\ UNCHANGED <<calendar_years, glacial_index, delta_T_data>>
        /\ LambdasUnchanged

\* C19: no climate or mass-balance update call changes the scaled observed
\* temperature and precipitation, the observed elevation, the LGM precipitation
\* adjustment, or what the two runtime lambdas return for a given time.
C19_StaticInputsImmutable ==
    [][StaticInputsKept]_vars

\* after two climate recomputations and a mass-balance recomputation the
\* observed temperature is still the file's, and not the recomputed field
C19_Witness ==
    /\ SmbRecomputed
    /\ Len(tcomp_clim_oggm) = 2 /\ Len(tcomp_smb_paleo) = 2
    /\ temp_obs = Squeeze(ObsFile(<<2, 2>>, <<2, 2>>, <<2, 2>>).air_temp)
    /\ temp_obs.shape = air_temp.shape
    /\ \A i \in DOMAIN temp_obs.data : air_temp.data[i] # temp_obs.data[i]
    /\ precipitation # prec_obs

\* observed temperature plus dT(t) plus the lapse correction of cell (y, x),
\* for i = (m, y, x)
reconstructed_temperature(i) ==
    RAdd(RAdd(temp_obs.data[i], dT_at_runtime(last_call.time)),
         RMul(params.temp_default_gradient,
              RSub(usurf.data[Tail(i)], observed_elevation.data[Tail(i)])))

\* C20: every recomputed air_temp[m, y, x], for each of the 12 months m and each
\* cell (y, x) of the grid, is observed temperature [m, y, x] + dT(t) +
\* temp_default_gradient * (usurf[y, x] - observed elevation [y, x]).
C20_TemperatureReconstruction ==
    ClimRecomputed =>
        /\ air_temp.shape = <<number_months>> \o usurf.shape
        /\ temp_obs.shape = air_temp.shape
        /\ observed_elevation.shape = usurf.shape
        /\ \A i \in DOMAIN air_temp.data :
               air_temp.data[i] = reconstructed_temperature(i)

----------------------------------------------------------------------------
(* The mass-balance pass, month by month.                                  *)

InPass == pc \in {"pass_loop", "pass_done"}

ShiftInUnitInterval ==
    /\ RLe(R(0), params.smb_accpdd_shift_hydro_year)
    /\ RLe(params.smb_accpdd_shift_hydro_year, R(1))

\* int(12 * hydroYearShift)
FirstHydroMonth == IntTrunc(RMul(R(number_months), params.smb_accpdd_shift_hydro_year))

\* the months visited so far follow one another, wrapping after the last
VisitedInOrder ==
    /\ Len(months_visited) = kk
    /\ \A j \in 1..(Len(months_visited) - 1) :
           months_visited[j + 1] = (months_visited[j] + 1) % number_months
    /\ kk = number_months =>
           /\ {months_visited[j] : j \in 1..number_months} = 0..(number_months - 1)
           /\ \A i, j \in 1..number_months :
                  months_visited[i] = months_visited[j] => i = j

\* C21 as stated: for every shift in [0, 1] a pass visits each of the 12 months
\* exactly once, in wrapping order, starting at month int(12 * shift).
C21_HydroMonthOrderAsStated ==
    (InPass /\ ShiftInUnitInterval) =>
        /\ VisitedInOrder
        /\ kk > 0 => months_visited[1] = FirstHydroMonth

\* C21: for every shift in [0, 1] a pass visits each of the 12 months exactly
\* once, in wrapping order, starting at month int(12 * shift) mod 12: month 9
\* for the default 0.75, month 0 for a shift of 1.
C21_HydroMonthOrder ==
    (InPass /\ ShiftInUnitInterval) =>
        /\ VisitedInOrder
        /\ kk > 0 => months_visited[1] = FirstHydroMonth % number_months
        /\ (kk > 0 /\ params.smb_accpdd_shift_hydro_year = Rat(3, 4)) =>
               months_visited[1] = 9

\* a finished pass with the default shift went 9, 10, 11, 0, ..., 8
C21_Witness ==
    /\ pc = "pass_done"
    /\ params.smb_accpdd_shift_hydro_year = Rat(3, 4)
    /\ months_visited = <<9, 10, 11, 0, 1, 2, 3, 4, 5, 6, 7, 8>>

\* a step of the loop over the months
MonthStep == pc = "pass_loop" /\ pc' = "pass_loop" /\ kk' = kk + 1

\* the month index of the step being taken
StepMonth == months_visited'[kk + 1]

\* snow depth of cell i once the month's accumulation is added
DepthWithSnowfall(i) == RAdd(snow_depth.data[i], accumulation.data[<<StepMonth + 1>> \o i])

\* positive degree-days of cell i in the month of the step
StepDegreeDays(i) == pos_temp_year.data[<<StepMonth + 1>> \o i]

\* all of the snow melted at the snow factor, the degree-days left over spent
\* on ice at the ice factor
BlendedAblation(depth, pdd) ==
    RAdd(depth, RMul(RSub(pdd, RDiv(depth, params.smb_accpdd_melt_factor_snow)),
                     params.smb_accpdd_melt_factor_ice))

AblationByCases ==
    MonthStep =>
        \A i \in DOMAIN snow_depth.data :
            \A depth \in {DepthWithSnowfall(i)}, pdd \in {StepDegreeDays(i)},
               abl \in {ablation'[kk + 1].data[i]} :
                IF depth = R(0)
                THEN abl = RMul(pdd, params.smb_accpdd_melt_factor_ice)
                ELSE IF RLt(RMul(pdd, params.smb_accpdd_melt_factor_snow), depth)
                THEN abl = RMul(pdd, params.smb_accpdd_melt_factor_snow)
                ELSE /\ abl = BlendedAblation(depth, pdd)
                     /\ RLe(depth, abl)
                     /\ snow_depth'.data[i] = R(0)

\* C22: in each month of the pass, with the month's accumulation added to the
\* snow depth, the ablation is degree-days times the ice factor on bare ground,
\* degree-days times the snow factor if that is below the snow depth, and
\* otherwise the blended term, which is at least the snow depth and leaves none.
C22_AblationByCases == [][AblationByCases]_vars

\* ablation recorded for cell i in the n-th month of the pass
Recorded(n, i) == ablation[n].data[i]

\* degree-days of cell i in the n-th month of the pass
DegreeDays(n, i) == pos_temp_year.data[<<months_visited[n] + 1>> \o i]

\* one cell has seen, in this pass, ice melting on bare ground, snow melting
\* with snow left, and the last snow and then ice melting in one month
C22_Witness ==
    /\ pc = "pass_loop" /\ kk = number_months
    /\ \E i \in DOMAIN snow_depth.data :
          \E ice, snow, both \in 1..number_months :
             /\ RLt(R(0), DegreeDays(ice, i))
             /\ Recorded(ice, i) = RMul(DegreeDays(ice, i), params.smb_accpdd_melt_factor_ice)
             /\ RLt(R(0), DegreeDays(snow, i))
             /\ Recorded(snow, i) = RMul(DegreeDays(snow, i), params.smb_accpdd_melt_factor_snow)
             /\ RLt(RMul(DegreeDays(both, i), params.smb_accpdd_melt_factor_snow),
                    Recorded(both, i))
             /\ RLt(Recorded(both, i),
                    RMul(DegreeDays(both, i), params.smb_accpdd_melt_factor_ice))

NonNegativePrecipitation ==
    \A i \in DOMAIN precipitation.data : RLe(R(0), precipitation.data[i])

\* the larger of two numbers
RMax(a, b) == IF RLt(a, b) THEN b ELSE a

SnowDepthClipped ==
    (MonthStep /\ NonNegativePrecipitation) =>
        \A i \in DOMAIN snow_depth.data :
            \A depth \in {DepthWithSnowfall(i)}, abl \in {ablation'[kk + 1].data[i]} :
                /\ RLe(R(0), snow_depth.data[i])
                /\ RLe(R(0), depth)
                /\ snow_depth'.data[i] = RMax(RSub(depth, abl), R(0))
                /\ RLe(R(0), snow_depth'.data[i])

\* C23: with non-negative precipitation, at the end of every month step the
\* snow depth is max(snow depth - ablation of that month, 0), and it is >= 0
\* in every cell before the step, after the snowfall and after the melt.
C23_SnowDepthNonNegative == [][SnowDepthClipped]_vars

\* snowfall of cell i over the first n months of the pass
RECURSIVE SnowfallInPass(_, _)
SnowfallInPass(n, i) ==
    IF n = 0 THEN R(0)
    ELSE RAdd(SnowfallInPass(n - 1, i), accumulation.data[<<months_visited[n] + 1>> \o i])

\* in the month just done one cell melted more than all the snow that had
\* fallen on it, and holds no snow, while another cell still holds snow
C23_Witness ==
    /\ pc = "pass_loop" /\ kk > 0
    /\ \E i, j \in DOMAIN snow_depth.data :
          /\ RLt(R(0), SnowfallInPass(kk, i))
          /\ RLt(SnowfallInPass(kk, i), Recorded(kk, i))
          /\ snow_depth.data[i] = R(0)
          /\ RLt(R(0), snow_depth.data[j])

\* the step from the end of the loop to the return of update
FinishStep == pc = "pass_loop" /\ pc' = "pass_done"

\* sum over the first n months of accumulation minus the recorded ablation
\* less its refrozen part, for cell i, before FinishStep
RECURSIVE NetBalance(_, _)
NetBalance(n, i) ==
    IF n = 0 THEN R(0)
    ELSE RAdd(NetBalance(n - 1, i),
              RSub(accumulation.data[<<n>> \o i],
                   RMul(RSub(R(1), params.smb_accpdd_refreeze_factor), Recorded(n, i))))

\* the ice mask of the last statement of update
Masked(balance, i) ==
    IF icemask = Unset \/ RLt(balance, R(0)) \/ RLt(Rat(1, 2), icemask.data[i])
    THEN balance ELSE R(-10)

RefreezeAfterLoop ==
    /\ MonthStep =>
          \A i \in DOMAIN snow_depth.data :
              \A depth \in {DepthWithSnowfall(i)}, pdd \in {StepDegreeDays(i)} :
                  \A melt \in {month_ablation(depth, pdd,
                                               params.smb_accpdd_melt_factor_snow,
                                               params.smb_accpdd_melt_factor_ice)} :
                      /\ ablation'[kk + 1].data[i] = melt
                      /\ snow_depth'.data[i] = RMax(RSub(depth, melt), R(0))
    /\ FinishStep =>
          /\ \A n \in 1..number_months, i \in DOMAIN snow_depth.data :
                 ablation'.data[<<n>> \o i]
                     = RMul(RSub(R(1), params.smb_accpdd_refreeze_factor), Recorded(n, i))
          /\ \A i \in DOMAIN snow_depth.data :
                 smb'.data[i]
                     = Masked(RMul(NetBalance(number_months, i),
                                   RDiv(params.smb_oggm_wat_density,
                                        params.smb_oggm_ice_density)), i)

\* C24: the snow depth of every month is kept with that month's ablation
\* before refreezing; after the loop every recorded ablation is multiplied by
\* (1 - refreezeFactor), the same for all 12 months, and smb is the sum over
\* the months of accumulation minus that ablation, times water density over
\* ice density.
C24_RefreezeAfterLoop == [][RefreezeAfterLoop]_vars

\* a finished pass with the default refreezing of 0.6 in which a cell lost ice
C24_Witness ==
    /\ pc = "pass_done"
    /\ params.smb_accpdd_refreeze_factor = Rat(3, 5)
    /\ icemask = Unset
    /\ \E i \in DOMAIN smb.data :
          /\ RLt(smb.data[i], R(0))
          /\ \E n \in 1..number_months : RLt(R(0), ablation.data[<<n>> \o i])

\* the accumulated fraction of precipitation at temperature T, as the claim gives it
SolidFraction(T) ==
    IF RLe(T, params.smb_temp_solid_precipitation) THEN R(1)
    ELSE IF RLe(params.smb_temp_liquid_precipitation, T) THEN R(0)
    ELSE RDiv(RSub(params.smb_temp_liquid_precipitation, T),
              RSub(params.smb_temp_liquid_precipitation,
                   params.smb_temp_solid_precipitation))

\* T lies strictly between the two thresholds
OnRamp(T) ==
    /\ RLt(params.smb_temp_solid_precipitation, T)
    /\ RLt(T, params.smb_temp_liquid_precipitation)

\* C25: in every month and cell the accumulation is precipitation times a
\* fraction that is 1 up to snowThreshold, 0 from rainThreshold on and
\* (rainThreshold - T) / (rainThreshold - snowThreshold) in between; the
\* fraction is within [0, 1], never grows with temperature, and no quotient
\* by zero is taken, equal thresholds included.
C25_SolidPartition ==
    InPass =>
        /\ \A i \in DOMAIN air_temp.data :
               /\ accumulation.data[i]
                      = RDiv(RDiv(RMul(precipitation.data[i], SolidFraction(air_temp.data[i])),
                                  R(number_months)),
                             params.smb_oggm_wat_density)
               /\ IsFinite(accumulation.data[i])
               /\ RLe(R(0), SolidFraction(air_temp.data[i]))
               /\ RLe(SolidFraction(air_temp.data[i]), R(1))
               /\ OnRamp(air_temp.data[i]) =>
                      params.smb_temp_liquid_precipitation
                          # params.smb_temp_solid_precipitation
        /\ \A i, j \in DOMAIN air_temp.data :
               RLe(air_temp.data[i], air_temp.data[j]) =>
                   RLe(SolidFraction(air_temp.data[j]), SolidFraction(air_temp.data[i]))

\* equal thresholds, a month exactly at them and one above: all of the first
\* month's precipitation is kept, none of the other's
C25_Witness ==
    /\ pc = "pass_loop"
    /\ params.smb_temp_solid_precipitation = params.smb_temp_liquid_precipitation
    /\ \E i, j \in DOMAIN air_temp.data :
          /\ air_temp.data[i] = params.smb_temp_solid_precipitation
          /\ RLt(R(0), accumulation.data[i])
          /\ RLt(params.smb_temp_liquid_precipitation, air_temp.data[j])
          /\ accumulation.data[j] = R(0)

\* the mass balance of the forcing, mask and parameters the call was given,
\* whatever was computed before
BalanceOfThisCall ==
    IF icemask # Unset
    THEN apply_icemask(mass_balance(params, air_temp, precipitation), icemask)
    ELSE mass_balance(params, air_temp, precipitation)

\* C26: the smb a pass produces is a function of that call's air_temp,
\* precipitation, ice mask and parameters alone, whatever the earlier calls
\* were, and every pass starts its loop with a snow depth of zero.
C26_NoSnowpackCarryOver ==
    /\ (pc = "pass_loop" /\ kk = 0) =>
           \A i \in DOMAIN snow_depth.data : snow_depth.data[i] = R(0)
    /\ pc = "pass_done" => smb = BalanceOfThisCall

\* a second pass has finished, with snow left on a cell at its end as at the
\* end of a wet and cold first pass
C26_Witness ==
    /\ pc = "pass_done"
    /\ Len(tcomp_smb_paleo) = 2
    /\ air_temp = PassForcing(0, 100).air_temp
    /\ precipitation = PassForcing(0, 100).precipitation
    /\ \E i \in DOMAIN snow_depth.data : RLt(R(0), snow_depth.data[i])

----------------------------------------------------------------------------
(* The proxy series and its scaling.                                       *)

\* the proxy file the run was initialized from
ProxyOfRun ==
    CHOOSE px \in IndexProxyFiles :
        calendar_years = [j \in 1..Len(px.time) |-> px.time[j] - params.year_0]

\* what the two lambdas return at the given time in a run on the same file
\* with polar_amplification_adjustment = 1
UnscaledRun(time) ==
    LET raw == [j \in 1..Len(ProxyOfRun.delta_T) |-> R(ProxyOfRun.delta_T[j])]
        G == normalized_glacial_index(ProxyOfRun.time, raw)
    IN  [ dT    |-> np_interp(time, calendar_years, raw, raw[1], raw[Len(raw)]),
          index |-> np_interp(time, calendar_years, G, G[1], G[Len(G)]) ]

\* C27: with a positive polar_amplification_adjustment p, dT_at_runtime(t) is
\* p times what it is on the unscaled series, and glacial_index_at_runtime(t)
\* is what it is on the unscaled series, for every t.
C27_PolarAmplificationScaling ==
    (pc = "called" /\ RLt(R(0), params.polar_amplification_adjustment)) =>
        \A unscaled \in {UnscaledRun(simulation_time)} :
            /\ dT_out = RMul(params.polar_amplification_adjustment, unscaled.dT)
            /\ index_out = unscaled.index

\* a call between two samples in a run with p = 2: dT is not zero and the
\* index lies strictly between 0 and 1
C27_Witness ==
    /\ pc = "called"
    /\ params.polar_amplification_adjustment = R(2)
    /\ \E j \in 1..(Len(calendar_years) - 1) :
          calendar_years[j] < simulation_time /\ simulation_time < calendar_years[j + 1]
    /\ IsFinite(dT_out) /\ dT_out # R(0)
    /\ RLt(R(0), index_out) /\ RLt(index_out, R(1))

\* the straight line through two neighbouring samples of the core, at year
LineThrough(older, younger, year) ==
    RAdd(temperatures[older],
         RMul(RDiv(RSub(temperatures[younger], temperatures[older]),
                   R(times[younger] - times[older])),
              R(year - times[older])))

\* C28: in the yearly series every year the core covers has the linear
\* interpolation of its two neighbouring samples, and every year asked for
\* outside the core has the value of the nearest endpoint sample (the core's
\* lists hold the youngest sample first and the oldest last).
C28_ResamplingClamps ==
    pc = "resampled" =>
        \A j \in 1..Len(d_t_range) :
            \A year \in {d_t_range[j]} :
                IF year < times[Len(times)]
                THEN yearly_delta_T[j] = temperatures[Len(times)]
                ELSE IF year > times[1]
                THEN yearly_delta_T[j] = temperatures[1]
                ELSE \E n \in 1..(Len(times) - 1) :
                        /\ times[n + 1] <= year /\ year <= times[n]
                        /\ yearly_delta_T[j] = LineThrough(n + 1, n, year)

----------------------------------------------------------------------------
(* The first call and the spacing of the recomputations.                   *)

\* the host is in its first step: no time_update has been taken yet
FirstStep == nsteps = 0

\* C29: in the host's first step both the climate and the mass-balance update
\* recompute, whatever the cadence and the starting time, so that a mass
\* balance is never computed from an air_temp and precipitation that the
\* climate module has not computed.
C29_FirstCallComputes ==
    /\ (FirstStep /\ last_call.module \in {"clim", "smb"}) => last_call.outcome # "skip"
    /\ SmbRecomputed => tcomp_clim_oggm # <<>>

\* the climate call of the step being taken recomputes
ClimRecomputes == pc = "clim" /\ last_call'.outcome = "done"

\* the mass-balance call of the step being taken recomputes
SmbRecomputes == pc = "smb" /\ last_call'.outcome = "done"

RecomputationSpacing ==
    /\ tlast_clim_oggm' # tlast_clim_oggm => ClimRecomputes
    /\ tlast_mb' # tlast_mb => SmbRecomputes
    /\ ClimRecomputes =>
          /\ tlast_clim_oggm' = t
          /\ t >= tlast_clim_oggm + params.paleo_clim_update_freq
    /\ SmbRecomputes =>
          /\ tlast_mb' = R(t)
          /\ RLe(RAdd(tlast_mb, R(params.smb_paleo_update_freq)), R(t))
    /\ (pc = "clim" /\ t < tlast_clim_oggm + params.paleo_clim_update_freq) =>
          /\ last_call'.outcome = "skip"
          /\ UNCHANGED clim_vars
    /\ (pc = "smb" /\ RLt(R(t), RAdd(tlast_mb, R(params.smb_paleo_update_freq)))) =>
          /\ last_call'.outcome = "skip"
          /\ UNCHANGED smb_vars

\* C30: for each module the last-update marker changes only in a
\* recomputation and then equals the time of that call; a recomputation
\* happens only at a time at least one cadence after the marker, so that after
\* the host has moved the time below the marker no call recomputes before the
\* time is back at marker + cadence.
C30_RecomputationSpacing == [][RecomputationSpacing]_vars

\* the host has moved the time back below both markers and both calls of the
\* step have been held back
C30_Witness ==
    /\ last_call.module = "smb" /\ last_call.outcome = "skip"
    /\ tcomp_clim_oggm # <<>> /\ tcomp_smb_paleo # <<>>
    /\ t < tlast_clim_oggm
    /\ RLt(R(t), tlast_mb)

====
